---------------------------- MODULE Spec2Model ----------------------------
(***************************************************************************)
(* A model of timid, the declarative test-step runner.                     *)
(*                                                                         *)
(*   - Step.__call__ (steps.py): the forward pre_call pass, the guarded    *)
(*     action invocation and the reverse post_call pass, one hook call per *)
(*     transition;                                                         *)
(*   - Step.parse_file / Step.parse_step (steps.py), the entry-point       *)
(*     registry (entry.py, setup.py) and the schema validation (utils.py); *)
(*   - the driver timid() (main.py).                                       *)
(*                                                                         *)
(* Python's None is the empty tuple and a value v that may be None is the  *)
(* one-element tuple <<v>>.  Results, modifiers, actions and steps are     *)
(* records.  The behaviour of a plug-in hook, of the extensions and of an  *)
(* external command is an input, drawn where the hook is called.           *)
(***************************************************************************)
EXTENDS Integers, Sequences, FiniteSets, TLC

VARIABLES
    test,       \* timid(): the step data read from the test file
    check,      \* timid(): the check argument
    verbose,    \* ctxt.verbose
    steps,      \* ctxt.steps
    pc,         \* position of the driver: start, loop, call, done (unit: a bare Step)
    idx,        \* timid(): the loop index
    printed,    \* what the current loop iteration wrote to stdout
    ret,        \* how timid() ended: None while running
    hist,       \* per visited step: skipped, truthy, falsy (its result), raised
    cstep,      \* Step.__call__: self, None when no Step is being invoked
    phase,      \* Step.__call__: NOT_STARTED, PRE_CALL, ACTING, POST_CALL, DONE, RAISED
    ci,         \* Step.__call__: the loop variable i
    cj,         \* Step.__call__: the loop variable j
    result,     \* Step.__call__: the working result
    exc,        \* Step.__call__: the exception leaving the invocation
    trace,      \* Step.__call__: the hook calls made, in order
    exts,       \* ExtensionSet: the number of activated extensions
    extdebug,   \* ExtensionDebugger: the level TIMID_EXTENSION_DEBUG gives
    extlog,     \* the calls made to the extensions' hooks, in order
    obj         \* the SensitiveDict or NamespaceCache a unit run works on

vars == <<test, check, verbose, steps, pc, idx, printed, ret, hist,
          cstep, phase, ci, cj, result, exc, trace, exts, extdebug, extlog, obj>>

extvars == <<exts, extdebug, extlog>>

drivervars == <<test, check, verbose, steps, pc, idx, printed, ret, hist, extvars, obj>>

callvars == <<cstep, phase, ci, cj, result, exc, trace>>

-----------------------------------------------------------------------------
(* Bounds *)

MaxMods == 3

MaxSteps == 2

MaxKeys == 3

MaxChildren == 2

MaxAssign == 2

MaxInvocations == 2

MaxExts == 2

-----------------------------------------------------------------------------
(* Values *)

None == <<>>

Some(v) == <<v>>

Val(o) == o[1]

Return(v) == [kind |-> "return", value |-> v]

Raise(e) == [kind |-> "raise", exc |-> e]

(* A YAML value: its type, as JSON Schema names it, and its text *)
Y(type, text) == [t |-> type, v |-> text]

YNull == Y("null", "null")

YStr(text) == Y("string", text)

YBool(b) == Y("boolean", IF b THEN "true" ELSE "false")

PyBool(y) ==
    CASE y.t = "boolean" -> y.v = "true"
      [] y.t = "null"    -> FALSE
      [] OTHER           -> y.v # ""

-----------------------------------------------------------------------------
(* steps.py: result states *)

SKIPPED == 0

SUCCESS == 1

FAILURE == 2

ERROR == 3

states == <<"SKIPPED", "SUCCESS", "FAILURE", "ERROR">>

StateName(state) == states[state + 1]

-----------------------------------------------------------------------------
(* steps.py: StepResult *)

(* a variant that takes the state of the first child *)
FirstState(results) == results[1].state

(* line 643: max(r.state for r in results), on a list that is not empty *)
RECURSIVE MaxState(_)
MaxState(results) ==
    IF Len(results) = 1 THEN results[1].state
    ELSE LET m == MaxState(Tail(results))
             s == results[1].state
         IN  IF s = None THEN m
             ELSE IF m = None THEN s
             ELSE IF Val(s) >= Val(m) THEN s ELSE m

(* a variant that wants every child to ignore errors *)
AllIgnore(results) ==
    \A k \in 1..Len(results) : results[k]._ignore = Some(TRUE)

(* line 645: any(r.ignore for r in results) *)
AnyIgnore(results) ==
    \E k \in 1..Len(results) : results[k]._ignore = Some(TRUE)

(* a variant in which the children decide the state before the return code *)
(* and the exception do                                                    *)
StepResultChildrenFirst(state, msg, ignore, returncode, exc_info, results) ==
    [state      |-> IF state # None THEN state
                    ELSE IF results # None /\ Val(results) # <<>>
                    THEN MaxState(Val(results))
                    ELSE IF exc_info # None THEN Some(ERROR)
                    ELSE IF returncode # None
                    THEN (IF Val(returncode) = 0 THEN Some(SUCCESS) ELSE Some(FAILURE))
                    ELSE None,
     msg        |-> msg,
     _ignore    |-> IF results # None /\ ignore = None
                    THEN Some(AnyIgnore(Val(results)))
                    ELSE ignore,
     returncode |-> returncode,
     exc_info   |-> exc_info,
     results    |-> IF results = None THEN <<>> ELSE Val(results)]

(* a variant that infers nothing *)
StepResultAsGiven(state, msg, ignore, returncode, exc_info, results) ==
    [state      |-> state,
     msg        |-> msg,
     _ignore    |-> ignore,
     returncode |-> returncode,
     exc_info   |-> exc_info,
     results    |-> IF results = None THEN <<>> ELSE Val(results)]

(* lines 601-651: __init__ *)
StepResult(state, msg, ignore, returncode, exc_info, results) ==
    LET s1 == IF exc_info # None /\ state = None THEN Some(ERROR) ELSE state
        s2 == IF returncode # None /\ s1 = None
              THEN (IF Val(returncode) = 0 THEN Some(SUCCESS) ELSE Some(FAILURE))
              ELSE s1
        s3 == IF results # None /\ s2 = None THEN MaxState(Val(results)) ELSE s2
        g  == IF results # None /\ ignore = None
              THEN Some(AnyIgnore(Val(results)))
              ELSE ignore
    IN  [state      |-> s3,
         msg        |-> msg,
         _ignore    |-> g,
         returncode |-> returncode,
         exc_info   |-> exc_info,
         results    |-> IF results = None THEN <<>> ELSE Val(results)]

(* StepResult(...) as a call: line 643 raises ValueError when max() is      *)
(* given no child                                                          *)
StepResultInit(state, msg, ignore, returncode, exc_info, results) ==
    IF /\ state = None
       /\ exc_info = None
       /\ returncode = None
       /\ results = Some(<<>>)
    THEN Raise("ValueError")
    ELSE Return(Some(StepResult(state, msg, ignore, returncode, exc_info, results)))

(* variants of __bool__ that the claims about the driver must tell from it *)
StepResultBoolIgnoreOnly(r) == r._ignore = Some(TRUE)

StepResultBoolStateOnly(r) == r.state # None /\ Val(r.state) \in {SKIPPED, SUCCESS}

StepResultBoolFailureOk(r) ==
    \/ r._ignore = Some(TRUE)
    \/ (r.state # None /\ Val(r.state) \in {SKIPPED, SUCCESS, FAILURE})

(* a variant in which a skipped step counts as a failure *)
StepResultBoolSuccessOnly(r) ==
    \/ r._ignore = Some(TRUE)
    \/ (r.state # None /\ Val(r.state) = SUCCESS)

(* lines 653-664: __bool__ *)
StepResultBool(r) ==
    \/ r._ignore = Some(TRUE)
    \/ (r.state # None /\ Val(r.state) \in {SKIPPED, SUCCESS})

IgnoreGet(r) == r._ignore = Some(TRUE)

(* a variant of the setter in which the last write wins *)
IgnoreSetAlways(r, value) == [r EXCEPT !._ignore = Some(value)]

(* lines 673-681: the setter of ignore *)
IgnoreSet(r, value) ==
    IF r._ignore = None THEN [r EXCEPT !._ignore = Some(value)] ELSE r

-----------------------------------------------------------------------------
(* The classes behind the registered names.  EarlyModifier, LateModifier   *)
(* and PluginAction stand for plug-ins registered by another package:      *)
(* their hooks keep the defaults of steps.Modifier except that pre_call,   *)
(* post_call and the action's __call__ behave as their caller draws, and   *)
(* that action_conf appends the modifier's name to the configuration.      *)
(* StepOnlyModifier is a plug-in restricted to step actions that keeps     *)
(* every default of steps.Modifier.                                        *)

NORMAL == 1

STEP == 2

UNRESTRICTED == 3

ModifierClasses ==
    {"EarlyModifier", "ConditionalModifier", "IgnoreErrorsModifier", "LateModifier",
     "StepOnlyModifier"}

ActionClasses == {"RunAction", "PluginAction", "IncludeAction"}

(* a variant that puts ignore-errors before the conditional *)
PriorityIgnoreErrorsFirst(cls) ==
    CASE cls = "EarlyModifier"        -> 100
      [] cls = "ConditionalModifier"  -> 200
      [] cls = "IgnoreErrorsModifier" -> 150
      [] cls = "LateModifier"         -> 400
      [] cls = "StepOnlyModifier"     -> 200

Priority(cls) ==
    CASE cls = "EarlyModifier"        -> 100
      [] cls = "ConditionalModifier"  -> 200
      [] cls = "IgnoreErrorsModifier" -> 300
      [] cls = "LateModifier"         -> 400
      [] cls = "StepOnlyModifier"     -> 200

Restriction(cls) ==
    CASE cls = "ConditionalModifier"  -> UNRESTRICTED
      [] cls = "IgnoreErrorsModifier" -> NORMAL
      [] cls = "StepOnlyModifier"     -> STEP
      [] OTHER                        -> NORMAL

StepActionFlag(cls) == cls = "IncludeAction"

IsPlugin(cls) == cls \in {"EarlyModifier", "LateModifier", "PluginAction"}

(* context.py: Context.expression, for the expressions "True" and "False"; *)
(* what is not a string evaluates to itself                                *)
Expression(config) ==
    IF config.t = "string" THEN config.v = "True" ELSE PyBool(config)

-----------------------------------------------------------------------------
(* Inputs: what a plug-in hook, an action or an external command does *)

ReturnCodes == {0, 1, 2}

Messages == {None, Some(""), Some("boom")}

Ignores == {None, Some(TRUE), Some(FALSE)}

ActionResults ==
    {StepResult(Some(s), m, g, None, None, None) :
        s \in {SKIPPED, SUCCESS, FAILURE, ERROR}, m \in Messages, g \in Ignores}

PreemptResults ==
    {StepResult(Some(SKIPPED), None, None, None, None, None),
     StepResult(Some(FAILURE), Some("preempt"), None, None, None, None)}

Rewritten == StepResult(Some(SUCCESS), Some("rewritten"), None, None, None, None)

PreBehaviours(mod) ==
    IF IsPlugin(mod.cls)
    THEN {Return(None), Raise("ModifierError")}
             \cup {Return(Some(r)) : r \in PreemptResults}
    ELSE {Return(None)}

PostBehaviours(mod) ==
    IF IsPlugin(mod.cls)
    THEN {[kind |-> "same"], [kind |-> "rewrite"], Raise("ModifierError")}
    ELSE {[kind |-> "same"]}

ActionBehaviours(action) ==
    IF action.cls = "RunAction"
    THEN {Return(rc) : rc \in ReturnCodes} \cup {Raise("OSError")}
    ELSE {Return(None), Raise("ActionError")}
             \cup {Return(Some(r)) : r \in ActionResults}

-----------------------------------------------------------------------------
(* modifiers.py, steps.py: the hooks *)

(* Modifier.pre_call, ConditionalModifier.pre_call *)
pre_call(mod, beh) ==
    CASE mod.cls = "ConditionalModifier" ->
             IF ~Expression(mod.config)
             THEN Return(Some(StepResult(Some(SKIPPED), None, None, None, None, None)))
             ELSE Return(None)
      [] mod.cls = "IgnoreErrorsModifier" -> Return(None)
      [] OTHER -> beh

(* Modifier.post_call, IgnoreErrorsModifier.post_call *)
post_call(mod, res, beh) ==
    CASE mod.cls = "IgnoreErrorsModifier" -> Return(Some(IgnoreSet(res, PyBool(mod.config))))
      [] mod.cls = "ConditionalModifier"  -> Return(Some(res))
      [] OTHER ->
             CASE beh.kind = "same"    -> Return(Some(res))
               [] beh.kind = "rewrite" -> Return(Some(Rewritten))
               [] OTHER                -> beh

(* RunAction.__call__; a plug-in action does as drawn *)
ActionCall(action, beh) ==
    IF action.cls = "RunAction" /\ beh.kind = "return"
    THEN Return(Some(StepResult(None, None, None, Some(beh.value), None, None)))
    ELSE beh

-----------------------------------------------------------------------------
(* steps.py: Step.__call__ *)

NMods(step) == Len(step.modifiers)

Event(op, mod, arg, out) == [op |-> op, mod |-> mod, arg |-> arg, out |-> out]

(* line 571: did the modifier return a result? *)
Preempts(out) == out.value # None

(* a variant without the try statement *)
GuardedActionNoTry(out) ==
    IF out.kind = "return" /\ out.value = None THEN Raise("TypeError") ELSE out

(* lines 576-584: the guarded action invocation *)
GuardedAction(out) ==
    IF out.kind = "raise"
    THEN Return(Some(StepResult(None, None, None, None, Some(out.exc), None)))
    ELSE IF out.value = None
    THEN Raise("TypeError")
    ELSE out

(* a variant with the hooks inside a try statement like the action's *)
HookCallGuarded(out) ==
    IF out.kind = "raise"
    THEN Return(Some(StepResult(None, None, None, None, Some(out.exc), None)))
    ELSE out

(* lines 567 and 589: a hook is called outside the try statement, so what *)
(* it returns or raises is what the invocation gets                       *)
HookCall(out) == out

(* a variant whose reverse pass starts from the last modifier of the list *)
PostFirstLast(i, n) == n - 1

(* line 588: range(i, -1, -1) *)
PostFirst(i, n) == i

(* the reverse pass starts, or the invocation returns *)
AfterForward(i, n) == IF PostFirst(i, n) >= 0 THEN "POST_CALL" ELSE "DONE"

Leaves(e) ==
    /\ phase' = "RAISED"
    /\ exc' = Some(e)

Begin ==
    /\ phase = "NOT_STARTED"
    /\ ci' = -1
    /\ phase' = IF NMods(Val(cstep)) > 0 THEN "PRE_CALL" ELSE "ACTING"
    /\ UNCHANGED <<cstep, cj, result, exc, trace>>

PreCall ==
    /\ phase = "PRE_CALL"
    /\ LET step == Val(cstep)
           i    == ci + 1
           mod  == step.modifiers[i + 1]
       IN  \E beh \in PreBehaviours(mod) :
             LET raw == pre_call(mod, beh)
                 out == HookCall(raw)
             IN  /\ ci' = i
                 /\ trace' = Append(trace, Event("pre_call", i, None, raw))
                 /\ IF out.kind = "raise"
                    THEN /\ Leaves(out.exc)
                         /\ UNCHANGED <<cj, result>>
                    ELSE /\ result' = out.value
                         /\ exc' = exc
                         /\ IF Preempts(out)
                            THEN /\ phase' = AfterForward(i, NMods(step))
                                 /\ cj' = PostFirst(i, NMods(step))
                            ELSE /\ phase' = IF i + 1 < NMods(step)
                                             THEN "PRE_CALL" ELSE "ACTING"
                                 /\ cj' = cj
    /\ UNCHANGED cstep

Act ==
    /\ phase = "ACTING"
    /\ LET step == Val(cstep)
       IN  \E beh \in ActionBehaviours(step.action) :
             LET raw == ActionCall(step.action, beh)
                 out == GuardedAction(raw)
             IN  /\ trace' = Append(trace, Event("action", -1, None, raw))
                 /\ IF out.kind = "raise"
                    THEN /\ Leaves(out.exc)
                         /\ UNCHANGED <<cj, result>>
                    ELSE /\ result' = out.value
                         /\ exc' = exc
                         /\ phase' = AfterForward(ci, NMods(step))
                         /\ cj' = PostFirst(ci, NMods(step))
    /\ UNCHANGED <<cstep, ci>>

PostCall ==
    /\ phase = "POST_CALL"
    /\ LET step == Val(cstep)
           j    == cj
           mod  == step.modifiers[j + 1]
       IN  \E beh \in PostBehaviours(mod) :
             LET raw == post_call(mod, Val(result), beh)
                 out == HookCall(raw)
             IN  /\ trace' = Append(trace, Event("post_call", j, result, raw))
                 /\ IF out.kind = "raise"
                    THEN /\ Leaves(out.exc)
                         /\ UNCHANGED <<cj, result>>
                    ELSE /\ result' = out.value
                         /\ exc' = exc
                         /\ cj' = j - 1
                         /\ phase' = IF j - 1 >= 0 THEN "POST_CALL" ELSE "DONE"
    /\ UNCHANGED <<cstep, ci>>

-----------------------------------------------------------------------------
(* A bare Step, built as the unit tests build one, invoked once *)

Modifier(cls, name, config) == [cls |-> cls, name |-> name, config |-> config]

Action(cls, name, config) == [cls |-> cls, name |-> name, config |-> config]

Step(action, modifiers) ==
    [action |-> action, modifiers |-> modifiers, name |-> action.cls]

ModifierObjects ==
    {Modifier("EarlyModifier", "early", YNull),
     Modifier("LateModifier", "late", YNull)}
        \cup {Modifier("ConditionalModifier", "when", YStr(c)) : c \in {"True", "False"}}
        \cup {Modifier("IgnoreErrorsModifier", "ignore-errors", YBool(c)) : c \in BOOLEAN}

ActionObjects ==
    {Action("RunAction", "run", YStr("exit 1")), Action("PluginAction", "act", YNull)}

Count(seq, cls) == Cardinality({k \in 1..Len(seq) : seq[k].cls = cls})

InPriorityOrder(seq) ==
    \A k \in 1..(Len(seq) - 1) : Priority(seq[k].cls) <= Priority(seq[k + 1].cls)

ModifierLists ==
    {seq \in UNION {[1..n -> ModifierObjects] : n \in 0..MaxMods} :
        /\ InPriorityOrder(seq)
        /\ Count(seq, "ConditionalModifier") <= 1
        /\ Count(seq, "IgnoreErrorsModifier") <= 1}

UnitSteps == {Step(a, m) : a \in ActionObjects, m \in ModifierLists}

InitCall ==
    /\ test = <<>>
    /\ check = FALSE
    /\ verbose = 1
    /\ steps = <<>>
    /\ pc = "unit"
    /\ idx = 0
    /\ printed = <<>>
    /\ ret = None
    /\ hist = <<>>
    /\ cstep \in {Some(s) : s \in UnitSteps}
    /\ phase = "NOT_STARTED"
    /\ ci = -1
    /\ cj = -1
    /\ result = None
    /\ exc = None
    /\ trace = <<>>
    /\ exts = 0
    /\ extdebug = 0
    /\ extlog = <<>>
    /\ obj = None

NextCall ==
    \/ Begin /\ UNCHANGED drivervars
    \/ PreCall /\ UNCHANGED drivervars
    \/ Act /\ UNCHANGED drivervars
    \/ PostCall /\ UNCHANGED drivervars

SpecCall == InitCall /\ [][NextCall]_vars

-----------------------------------------------------------------------------
(* Reading the trace of an invocation *)

N == NMods(Val(cstep))

Ended == phase \in {"DONE", "RAISED"}

IsCall(k, op, mod) == trace[k].op = op /\ trace[k].mod = mod

Calls(op) == {k \in 1..Len(trace) : trace[k].op = op}

CallsOf(op, mod) == {k \in Calls(op) : trace[k].mod = mod}

HookCalls == Calls("pre_call") \cup Calls("post_call")

PreAllNull == \A k \in Calls("pre_call") : trace[k].out = Return(None)

NoHookRaised == \A k \in HookCalls : trace[k].out.kind = "return"

ActionInvoked == Calls("action") # {}

(* the pre_call that returned a result, if any: its position in the trace *)
PreemptAt == {k \in Calls("pre_call") :
                 trace[k].out.kind = "return" /\ trace[k].out.value # None}

(* the post_call events are p, p-1, ... from trace position first on *)
PostDescending(first, p) ==
    \A k \in first..Len(trace) : IsCall(k, "post_call", p - (k - first))

(* each post_call gets what the call before it produced, starting with r *)
PostChained(first, r) ==
    \A k \in first..Len(trace) :
        trace[k].arg = IF k = first THEN r ELSE trace[k - 1].out.value

-----------------------------------------------------------------------------
(* C1: an invocation in which every pre_call returned None and no hook     *)
(* raised calls pre_call on modifiers 0..N-1 in ascending order, then the  *)
(* action, then post_call on modifiers N-1..0 in descending order, each    *)
(* exactly once.                                                           *)
C1_OnionOrder ==
    (cstep # None /\ Ended /\ PreAllNull /\ NoHookRaised)
        => /\ Len(trace) = 2 * N + 1
           /\ \A i \in 0..(N - 1) : IsCall(i + 1, "pre_call", i)
           /\ IsCall(N + 1, "action", -1)
           /\ \A j \in 0..(N - 1) : IsCall(2 * N + 1 - j, "post_call", j)

(* C2: when modifier i is the first whose pre_call returns a result r, no  *)
(* pre_call and no post_call is made on a modifier after i, the action is  *)
(* not invoked, post_call is made once on each of i, i-1, ..., 0 in that   *)
(* order, each receiving what the one before returned (the first receives  *)
(* r), and the Step returns what the post_call of modifier 0 returned.     *)
C2_Preempt ==
    \A k \in PreemptAt :
        LET i == trace[k].mod
            r == trace[k].out.value
        IN  /\ k = i + 1
            /\ \A h \in 1..k : IsCall(h, "pre_call", h - 1)
            /\ ~ActionInvoked
            /\ \A h \in HookCalls : trace[h].mod <= i
            /\ PostDescending(k + 1, i)
            /\ PostChained(k + 1, r)
            /\ phase = "DONE" =>
                   /\ Len(trace) = 2 * (i + 1)
                   /\ result = trace[Len(trace)].out.value
                   /\ (\A h \in Calls("post_call") : trace[h].out.value = trace[h].arg)
                          => result = r

C2_Witness ==
    /\ phase = "DONE"
    /\ N = 3
    /\ \E k \in PreemptAt : trace[k].mod = 1
    /\ \E h \in Calls("post_call") : trace[h].out.value # trace[h].arg

(* C3: when every pre_call returned None and the action raised, the        *)
(* working result is a StepResult carrying the exception, of state ERROR;  *)
(* post_call runs on modifiers N-1..0 in descending order, the first       *)
(* receiving that result; the action's exception does not leave the        *)
(* invocation, which returns once the post_calls are made.                 *)
C3_ActionRaises ==
    \A k \in Calls("action") :
        trace[k].out.kind = "raise" =>
            LET wrapped == StepResult(None, None, None, None,
                                      Some(trace[k].out.exc), None)
            IN  /\ k = N + 1
                /\ wrapped.state = Some(ERROR)
                /\ PostDescending(k + 1, N - 1)
                /\ PostChained(k + 1, Some(wrapped))
                /\ k = Len(trace) => result = Some(wrapped)
                /\ phase = "RAISED" =>
                       /\ Len(trace) > k
                       /\ trace[Len(trace)].out.kind = "raise"
                       /\ exc = Some(trace[Len(trace)].out.exc)
                /\ phase # "RAISED" => exc = None
                /\ phase = "DONE" <=> (Len(trace) = 2 * N + 1 /\ NoHookRaised)

C3_Witness ==
    /\ phase = "DONE"
    /\ N = 2
    /\ \E k \in Calls("action") : trace[k].out.kind = "raise"
    /\ Val(result).state = Some(ERROR)
    /\ Val(result).exc_info # None

(* C4: when every pre_call returned None and the action returned None, the *)
(* working result is a StepResult of state ERROR, it goes through the      *)
(* reverse pass and no exception leaves the invocation.                    *)
C4_ActionReturnsNone ==
    \A k \in Calls("action") :
        trace[k].out = Return(None) =>
            /\ k = Len(trace) =>
                   /\ phase # "RAISED"
                   /\ result # None
                   /\ Val(result).state = Some(ERROR)
            /\ PostDescending(k + 1, N - 1)
            /\ (phase = "RAISED" => trace[Len(trace)].op = "post_call")

(* C5: an exception raised by a pre_call or a post_call leaves the         *)
(* invocation at once, as it is; after a raising pre_call neither the      *)
(* action nor any post_call is invoked.                                    *)
C5_ModifierRaises ==
    \A k \in HookCalls :
        trace[k].out.kind = "raise" =>
            /\ k = Len(trace)
            /\ phase = "RAISED"
            /\ exc = Some(trace[k].out.exc)
            /\ trace[k].op = "pre_call" =>
                   /\ ~ActionInvoked
                   /\ Calls("post_call") = {}

C5_Witness ==
    /\ phase = "RAISED"
    /\ \E k \in Calls("pre_call") : trace[k].out.kind = "raise" /\ trace[k].mod = 1

(* the modifiers of the step in hand that are conditionals whose condition *)
(* holds, and those that are ignore-errors modifiers, by index             *)
HoldingConditionals ==
    {i \in 0..(N - 1) : /\ Val(cstep).modifiers[i + 1].cls = "ConditionalModifier"
                        /\ Expression(Val(cstep).modifiers[i + 1].config)}

IgnoreErrorsMods ==
    {i \in 0..(N - 1) : Val(cstep).modifiers[i + 1].cls = "IgnoreErrorsModifier"}

(* C32 as stated: in a step carrying a conditional whose condition holds   *)
(* and an ignore-errors modifier, the post_call of ignore-errors is called *)
(* after the post_call of the conditional.                                 *)
C32_IgnoreErrorsLast ==
    (pc = "unit" /\ cstep # None) =>
        \A c \in HoldingConditionals, e \in IgnoreErrorsMods :
            \A h \in CallsOf("post_call", e) :
                \E k \in CallsOf("post_call", c) : k < h

(* C32, amended: in such a step the post_call of ignore-errors is called   *)
(* before the post_call of the conditional, the reverse pass going from    *)
(* the highest priority down; the conditional's post_call returns the      *)
(* result it was given, so what ignore-errors set stands.                  *)
C32_IgnoreErrorsFirst ==
    (pc = "unit" /\ cstep # None) =>
        \A c \in HoldingConditionals, e \in IgnoreErrorsMods :
            \A k \in CallsOf("post_call", c) :
                /\ \E h \in CallsOf("post_call", e) : h < k
                /\ trace[k].out = Return(trace[k].arg)

C32_Witness ==
    /\ pc = "unit"
    /\ phase = "DONE"
    /\ N = 2
    /\ HoldingConditionals = {0}
    /\ IgnoreErrorsMods = {1}
    /\ IsCall(Len(trace) - 1, "post_call", 1)
    /\ IsCall(Len(trace), "post_call", 0)
    /\ Val(cstep).modifiers[2].config = YBool(TRUE)
    /\ Val(result)._ignore = Some(TRUE)
    /\ Val(result).state = Some(FAILURE)

-----------------------------------------------------------------------------
(* setup.py, entry.py: the registered names.  A name is registered under a *)
(* namespace with the module and the attribute to load; early, late,       *)
(* steponly and act are the plug-ins of the model.                         *)

NAMESPACE_ACTION == "timid.actions"

NAMESPACE_MODIFIER == "timid.modifiers"

EntryPoint(module, attr) == [module |-> module, attr |-> attr]

EntryPoints(namespace) ==
    IF namespace = NAMESPACE_ACTION
    THEN ("run" :> EntryPoint("timid.environment", "RunAction"))
             @@ ("include" :> EntryPoint("timid.steps", "IncludeAction"))
             @@ ("act" :> EntryPoint("plugin", "PluginAction"))
    ELSE ("when" :> EntryPoint("timid.modifiers", "ConditionalModifier"))
             @@ ("ignore-errors" :> EntryPoint("timid.modifiers", "IgnoreErrorModifier"))
             @@ ("early" :> EntryPoint("plugin", "EarlyModifier"))
             @@ ("late" :> EntryPoint("plugin", "LateModifier"))
             @@ ("steponly" :> EntryPoint("plugin", "StepOnlyModifier"))

(* the classes a module defines *)
ModuleAttrs(module) ==
    CASE module = "timid.environment" -> {"RunAction"}
      [] module = "timid.steps"       -> {"IncludeAction"}
      [] module = "timid.modifiers"   -> {"ConditionalModifier", "IgnoreErrorsModifier"}
      [] module = "plugin"            ->
             {"PluginAction", "EarlyModifier", "LateModifier", "StepOnlyModifier"}

(* EntryPoint.load(): the attribute of the module, or ImportError *)
EpLoad(ep) ==
    IF ep.attr \in ModuleAttrs(ep.module) THEN Return(ep.attr) ELSE Raise("ImportError")

(* NamespaceCache.__contains__ on a cache that recorded no failure: no     *)
(* load is attempted                                                       *)
Contains(namespace, name) == name \in DOMAIN EntryPoints(namespace)

(* NamespaceCache.__getitem__ on a cache that holds nothing for the name *)
GetItem(namespace, name) ==
    IF name \notin DOMAIN EntryPoints(namespace)
    THEN Raise("KeyError")
    ELSE EpLoad(EntryPoints(namespace)[name])

-----------------------------------------------------------------------------
(* utils.py: schema_validate.  A schema of the model is the set of type    *)
(* names it accepts; jsonschema.validate first checks the schema itself    *)
(* and raises SchemaError, which schema_validate does not catch, for a     *)
(* type name that JSON Schema does not define.                             *)

JsonSchemaTypes ==
    {"array", "boolean", "integer", "null", "number", "object", "string"}

Schema(cls) ==
    CASE cls = "RunAction"            -> {"string", "array"}
      [] cls = "IncludeAction"        -> {"object"}
      [] cls = "ConditionalModifier"  -> {"string"}
      [] cls = "IgnoreErrorsModifier" -> {"bool"}
      [] OTHER                        -> {"null"}

StepSchemas == {"name", "description"}

schema_validate(instance, schema) ==
    IF ~(schema \subseteq JsonSchemaTypes) THEN Raise("SchemaError")
    ELSE IF instance.t \in schema THEN Return(None)
    ELSE Raise("ConfigError")

-----------------------------------------------------------------------------
(* steps.py: Step.parse_step and Step.parse_file.  A step configuration is *)
(* the sequence of its (key, value) pairs, in the order items() gives.     *)

Item(key, conf) == [key |-> key, conf |-> conf]

StepItem(cls, name, conf) == [cls |-> cls, name |-> name, conf |-> conf]

(* a Python list of Step objects, as parse_step returns one *)
StepList(seq) == [steps |-> seq]

IsStepList(value) == "steps" \in DOMAIN value

(* lines 441-479: one key of the step configuration *)
ClassifyKey(acc, key, key_conf) ==
    IF key \in StepSchemas
    THEN LET v == schema_validate(key_conf, {"string"})
         IN  IF v.kind = "raise" THEN [acc EXCEPT !.error = Some(v.exc)]
             ELSE [acc EXCEPT !.kwargs = Append(@, Item(key, key_conf))]
    ELSE IF Contains(NAMESPACE_ACTION, key)
    THEN IF acc.action_item # None THEN [acc EXCEPT !.error = Some("ConfigError")]
         ELSE LET c == GetItem(NAMESPACE_ACTION, key)
              IN  IF c.kind = "raise" THEN [acc EXCEPT !.error = Some(c.exc)]
                  ELSE [acc EXCEPT !.action_item = Some(StepItem(c.value, key, key_conf))]
    ELSE IF Contains(NAMESPACE_MODIFIER, key)
    THEN LET c == GetItem(NAMESPACE_MODIFIER, key)
         IN  IF c.kind = "raise" THEN [acc EXCEPT !.error = Some(c.exc)]
             ELSE [acc EXCEPT !.mod_items = Append(@, StepItem(c.value, key, key_conf))]
    ELSE [acc EXCEPT !.error = Some("ConfigError")]

RECURSIVE ClassifyKeys(_, _)
ClassifyKeys(items, acc) ==
    IF items = <<>> \/ acc.error # None THEN acc
    ELSE ClassifyKeys(Tail(items), ClassifyKey(acc, Head(items).key, Head(items).conf))

(* a variant that keeps the order in which the keys were encountered *)
IterPrioDictUnsorted(mod_items) == mod_items

(* utils.py: iter_prio_dict over the modifier items grouped by priority *)
RECURSIVE IterPrioDict(_)
IterPrioDict(mod_items) ==
    IF mod_items = <<>> THEN <<>>
    ELSE LET prios == {Priority(mod_items[k].cls) : k \in 1..Len(mod_items)}
             low   == CHOOSE p \in prios : \A q \in prios : p <= q
             IsLow(item)  == Priority(item.cls) = low
             NotLow(item) == Priority(item.cls) # low
         IN  SelectSeq(mod_items, IsLow) \o IterPrioDict(SelectSeq(mod_items, NotLow))

(* restriction & action_type on the two restriction bits *)
BitAnd(a, b) ==
    ((a % 2) * (b % 2)) + 2 * (((a \div 2) % 2) * ((b \div 2) % 2))

(* IncludeAction.__init__, lines 886-888: a bare string becomes {path: ...} *)
InitConf(cls, conf) ==
    IF cls = "IncludeAction" /\ conf.t = "string" THEN Y("object", conf.v) ELSE conf

(* StepPart.__init__ through StepItem.init *)
StepPartInit(item) ==
    LET config == InitConf(item.cls, item.conf)
        v      == schema_validate(config, Schema(item.cls))
    IN  IF v.kind = "raise" THEN v
        ELSE Return([cls |-> item.cls, name |-> item.name, config |-> config])

(* Modifier.action_conf; the plug-ins early and late override it *)
action_conf(mod, config) ==
    IF mod.cls \in {"EarlyModifier", "LateModifier"}
    THEN [config EXCEPT !.v = @ \o "+" \o mod.name]
    ELSE config

(* a variant that drops what the hook returned *)
ConfAfterKept(conf, returned) == conf

(* lines 513-515: what action_conf returned becomes the configuration of   *)
(* the action                                                              *)
ConfAfter(conf, returned) == returned

(* lines 494-515: the modifiers, in priority order; the log records each   *)
(* constructor call and each action_conf call with the position of the     *)
(* modifier in that order                                                  *)
RECURSIVE BuildModifiers(_, _, _)
BuildModifiers(mod_items, action_type, acc) ==
    IF mod_items = <<>> \/ acc.error # None THEN acc
    ELSE LET mod_item == Head(mod_items)
             k        == Len(acc.modifiers)
         IN  IF BitAnd(Restriction(mod_item.cls), action_type) = 0
             THEN [acc EXCEPT !.error = Some("ConfigError")]
             ELSE LET m    == StepPartInit(mod_item)
                      made == Event("init", k, Some(mod_item.conf), m)
                  IN  IF m.kind = "raise"
                      THEN [acc EXCEPT !.error = Some(m.exc), !.log = Append(@, made)]
                      ELSE LET returned == action_conf(m.value, acc.conf)
                           IN  BuildModifiers(Tail(mod_items), action_type,
                                   [acc EXCEPT
                                       !.modifiers = Append(@, m.value),
                                       !.conf = ConfAfter(acc.conf, returned),
                                       !.log = @ \o <<made,
                                           Event("action_conf", k, Some(acc.conf),
                                                 Return(returned))>>])

StepName(kwargs, action) ==
    LET names == SelectSeq(kwargs, LAMBDA it : it.key = "name" /\ it.conf.v # "")
    IN  IF names = <<>> THEN action.cls ELSE names[Len(names)].conf.v

(* Step.__call__ run to its end at parse time, on a step whose modifiers   *)
(* keep the default hooks or are conditionals: the forward pass from       *)
(* modifier i                                                              *)
RECURSIVE Forward(_, _)
Forward(step, i) ==
    IF i >= NMods(step) THEN [i |-> i - 1, out |-> Return(None)]
    ELSE LET out == HookCall(pre_call(step.modifiers[i + 1], Return(None)))
         IN  IF out.kind = "raise" \/ Preempts(out) THEN [i |-> i, out |-> out]
             ELSE Forward(step, i + 1)

(* the reverse pass from modifier j *)
RECURSIVE Reverse(_, _, _)
Reverse(step, j, res) ==
    IF j < 0 THEN Return(Some(res))
    ELSE LET out == HookCall(post_call(step.modifiers[j + 1], res, [kind |-> "same"]))
         IN  IF out.kind = "raise" THEN out
             ELSE Reverse(step, j - 1, Val(out.value))

(* lines 571-591 of Step.__call__ after the forward pass f: raw is what    *)
(* the action does if it is called                                         *)
AfterPreCalls(step, raw, f) ==
    IF f.out.kind = "raise" THEN f.out
    ELSE IF Preempts(f.out)
    THEN Reverse(step, PostFirst(f.i, NMods(step)), Val(f.out.value))
    ELSE LET g == GuardedAction(raw)
         IN  IF g.kind = "raise" THEN g
             ELSE Reverse(step, PostFirst(f.i, NMods(step)), Val(g.value))

(* step(ctxt) *)
InvokeStep(step, raw) == AfterPreCalls(step, raw, Forward(step, 0))

(* the files an include action may name: what reading one gives *)
IncludeFiles == {"ok.yaml", "bad.yaml", "missing.yaml"}

FileData(path) ==
    CASE path = "ok.yaml" ->
             Return(<< <<Item("run", YStr("exit 1"))>>,
                       <<Item("act", YNull), Item("when", YStr("True"))>> >>)
      [] path = "bad.yaml" -> Return(<< <<Item("bogus", YNull)>> >>)
      [] path = "long.yaml" ->
             Return(<< <<Item("run", YStr("exit 0"))>>,
                       <<Item("run", YStr("exit 1"))>>,
                       <<Item("act", YNull)>> >>)
      [] OTHER -> Raise("ConfigError")

RECURSIVE parse_file(_)

(* an include configuration that is a mapping with start and stop, each   *)
(* None when the key is absent                                             *)
YInclude(path, start, stop) ==
    [t |-> "object", v |-> path, start |-> start, stop |-> stop]

(* lines 893-894: config.get('start'), config.get('stop') *)
IncludeStart(config) == IF "start" \in DOMAIN config THEN config.start ELSE None

IncludeStop(config) == IF "stop" \in DOMAIN config THEN config.stop ELSE None

(* a bound of a Python slice of a list of n elements, as an index from 0 *)
SliceBound(bound, n, default) ==
    IF bound = None THEN default
    ELSE IF Val(bound) < 0 THEN (IF Val(bound) + n < 0 THEN 0 ELSE Val(bound) + n)
    ELSE IF Val(bound) > n THEN n
    ELSE Val(bound)

(* seq[start:stop] *)
Slice(seq, start, stop) ==
    SubSeq(seq, SliceBound(start, Len(seq), 0) + 1, SliceBound(stop, Len(seq), Len(seq)))

(* lines 917-919: narrow the steps, if desired *)
Narrow(step_list, start, stop) ==
    IF start # None \/ stop # None THEN Slice(step_list, start, stop) ELSE step_list

(* IncludeAction.__call__, lines 914-921: the steps of the file that was read *)
IncludeSteps(parsed, start, stop) ==
    IF parsed.kind = "raise" THEN parsed
    ELSE Return(Some(StepList(Narrow(parsed.value, start, stop))))

(* IncludeAction.__call__ *)
IncludeCall(action) ==
    LET data == FileData(action.config.v)
    IN  IF data.kind = "raise" THEN data
        ELSE IncludeSteps(parse_file(data.value), IncludeStart(action.config),
                          IncludeStop(action.config))

(* lines 527-528: return step(ctxt), r being what the invocation gives and *)
(* f its forward pass; the action is logged if the invocation reaches it   *)
ParseStepInvoke(raw, r, f, log) ==
    [out |-> IF r.kind = "raise" THEN r ELSE Return(Val(r.value)),
     log |-> log
             \o (IF f.out.kind = "return" /\ ~Preempts(f.out)
                 THEN <<Event("action", -1, None, raw)>>
                 ELSE <<>>)
             \o <<Event("__call__", -1, None, r)>>]

(* lines 521-531: the Step and what parse_step returns *)
ParseStepStep(step, log) ==
    IF StepActionFlag(step.action.cls)
    THEN ParseStepInvoke(IncludeCall(step.action),
                         InvokeStep(step, IncludeCall(step.action)),
                         Forward(step, 0),
                         Append(log, Event("Step", -1, None, Return(step))))
    ELSE [out |-> Return(StepList(<<step>>)),
          log |-> Append(log, Event("Step", -1, None, Return(step)))]

(* lines 518-521: the action, built from the configuration the hooks left *)
ParseStepAction(keys, built, a, log) ==
    IF a.kind = "raise" THEN [out |-> a, log |-> log]
    ELSE ParseStepStep([action    |-> a.value,
                        modifiers |-> built.modifiers,
                        name      |-> StepName(keys.kwargs, a.value)],
                       log)

(* lines 494-518: after the modifiers *)
ParseStepModifiers(keys, action_item, built) ==
    IF built.error # None
    THEN [out |-> Raise(Val(built.error)), log |-> built.log]
    ELSE ParseStepAction(keys, built,
             StepPartInit([action_item EXCEPT !.conf = built.conf]),
             Append(built.log,
                 Event("init", -1, Some(built.conf),
                       StepPartInit([action_item EXCEPT !.conf = built.conf]))))

(* lines 481-495: after the keys *)
ParseStepKeys(keys) ==
    IF keys.error # None THEN [out |-> Raise(Val(keys.error)), log |-> <<>>]
    ELSE IF keys.action_item = None THEN [out |-> Raise("ConfigError"), log |-> <<>>]
    ELSE ParseStepModifiers(keys, Val(keys.action_item),
             BuildModifiers(IterPrioDict(keys.mod_items),
                 IF StepActionFlag(Val(keys.action_item).cls) THEN STEP ELSE NORMAL,
                 [modifiers |-> <<>>, conf |-> Val(keys.action_item).conf,
                  error |-> None, log |-> <<>>]))

(* Step.parse_step with the log of what it constructs and calls: the       *)
(* constructors, the action_conf hooks, Step(...) and, for a step action,  *)
(* the action if step(ctxt) reaches it and step(ctxt) itself               *)
ParseStepRun(step_conf) ==
    ParseStepKeys(ClassifyKeys(step_conf,
        [action_item |-> None, mod_items |-> <<>>, kwargs |-> <<>>,
         error |-> None]))

parse_step(step_conf) == ParseStepRun(step_conf).out

(* line 406: steps.extend(...) of what parse_step returned, which raises   *)
(* TypeError for what is not iterable                                      *)
ExtendSteps(first, rest_data) ==
    IF first.kind = "raise" THEN first
    ELSE IF ~IsStepList(first.value) THEN Raise("TypeError")
    ELSE LET rest == parse_file(rest_data)
         IN  IF rest.kind = "raise" THEN rest
             ELSE Return(first.value.steps \o rest.value)

(* lines 403-409: the loop over the steps of the file *)
parse_file(step_data) ==
    IF step_data = <<>> THEN Return(<<>>)
    ELSE ExtendSteps(parse_step(Head(step_data)), Tail(step_data))

-----------------------------------------------------------------------------
(* main.py: timid() *)

(* the test files of the model: each step has one action key and, in this  *)
(* order, at most one of each of the keys when, ignore-errors and late     *)
Opt(item) == {<<>>, <<item>>}

StepConfs ==
    {<<a>> \o w \o g \o l :
        a \in {Item("run", YStr("exit 1")), Item("act", YNull)},
        w \in UNION {Opt(Item("when", YStr(c))) : c \in {"True", "False"}},
        g \in UNION {Opt(Item("ignore-errors", YBool(b))) : b \in BOOLEAN},
        l \in Opt(Item("late", YNull))}

TestFiles == UNION {[1..n -> StepConfs] : n \in 0..MaxSteps}

(* what the extensions' post_step does to the result *)
ExtEffects == {"nothing", "ignore_true", "ignore_false"}

PostStepEffect(r, effect) ==
    CASE effect = "ignore_true"  -> IgnoreSet(r, TRUE)
      [] effect = "ignore_false" -> IgnoreSet(r, FALSE)
      [] OTHER                   -> r

-----------------------------------------------------------------------------
(* extensions.py: ExtensionDebugger and ExtensionSet.  What the hook of an *)
(* extension does is Return(x) or Raise(e): for read_steps x says what it  *)
(* does to the list, for pre_step x is what it returns, for post_step x    *)
(* says what it does to the result, for finalize x is None when it returns *)
(* the result it was given and the value it returns otherwise.             *)

(* the exceptions that are not subclasses of Exception *)
BaseExceptions == {"SystemExit", "KeyboardInterrupt", "GeneratorExit"}

IsException(e) == e \notin BaseExceptions

(* a variant of str() that gives back what it is given *)
StrSame(value) == value

(* a variant that lets every exception through *)
DebuggerExitNever(debug, e) == Return(FALSE)

(* ExtensionDebugger.__exit__ on an exception: sys.exit() with debugging,  *)
(* otherwise true, which ignores the exception, for an Exception           *)
DebuggerExit(debug, e) ==
    IF debug >= 1 THEN Raise("SystemExit") ELSE Return(IsException(e))

(* the values timid() and finalize hand on: None, a string, an exception *)
PyNone == [t |-> "none"]

PyStr(text) == [t |-> "str", v |-> text]

PyExc(e) == [t |-> "exc", v |-> e]

(* str(exc) *)
Str(value) == IF value.t = "exc" THEN PyStr("str(" \o value.v \o ")") ELSE value

(* what the extensions' read_steps does to the list of steps *)
ReadStepsEffect(step_list, effect) ==
    IF effect = "drop" /\ step_list # <<>>
    THEN SubSeq(step_list, 1, Len(step_list) - 1)
    ELSE step_list

(* the hook of one extension, called on value: what the call gives, what   *)
(* value is afterwards, and whether the method returns at once             *)
ExtHook(method, beh, value) ==
    IF beh.kind = "raise" THEN [out |-> beh, value |-> value, stop |-> FALSE]
    ELSE CASE method = "read_steps" ->
                  [out |-> Return(None), value |-> ReadStepsEffect(value, beh.value),
                   stop |-> FALSE]
           [] method = "pre_step" ->
                  [out |-> beh, value |-> value, stop |-> beh.value]
           [] method = "post_step" ->
                  [out |-> Return(None), value |-> PostStepEffect(value, beh.value),
                   stop |-> FALSE]
           [] OTHER ->
                  [out |-> Return(IF beh.value = None THEN value ELSE Val(beh.value)),
                   value |-> IF beh.value = None THEN value ELSE Val(beh.value),
                   stop |-> FALSE]

RECURSIVE ExtLoop(_, _, _, _, _, _)

(* the with statement around the hook of extension k: h is what the hook   *)
(* did and d what __exit__ says of the exception, if there was one; value  *)
(* is the object the hooks were handed, as the hooks called so far left it *)
ExtAfterHook(method, behs, debug, k, value, h, d, log) ==
    IF h.out.kind = "raise"
    THEN IF d.kind = "raise" THEN [out |-> d, log |-> log, value |-> value]
         ELSE IF d.value THEN ExtLoop(method, behs, debug, k + 1, value, log)
         ELSE [out |-> h.out, log |-> log, value |-> value]
    ELSE IF h.stop THEN [out |-> Return(TRUE), log |-> log, value |-> h.value]
    ELSE ExtLoop(method, behs, debug, k + 1, h.value, log)

(* ExtensionSet.read_steps, pre_step, post_step and finalize: the loop over *)
(* the extensions from extension k on, with the log of the hook calls      *)
ExtLoop(method, behs, debug, k, value, log) ==
    IF k > Len(behs)
    THEN [out |-> Return(IF method = "pre_step" THEN FALSE ELSE value), log |-> log,
          value |-> value]
    ELSE ExtAfterHook(method, behs, debug, k, value,
                      ExtHook(method, behs[k], value),
                      DebuggerExit(debug, ExtHook(method, behs[k], value).out.exc),
                      Append(log, Event(method, k, Some(value),
                                        ExtHook(method, behs[k], value).out)))

ExtensionSetCall(method, behs, debug, value) ==
    ExtLoop(method, behs, debug, 1, value, <<>>)

(* line 203 *)
ProgressLine(i, step) ==
    "[Step " \o ToString(i) \o "]: " \o step.name \o " . . . "

(* lines 219-220 *)
StatusLine(r) ==
    StateName(Val(r.state)) \o (IF IgnoreGet(r) THEN " (ignored)" ELSE "")

(* lines 224-226 *)
FailureMsg(r) ==
    IF r.msg # None /\ Val(r.msg) # ""
    THEN "Test step failure" \o ": " \o Val(r.msg)
    ELSE "Test step failure"

(* what the history records of a tested result: falsy is state FAILURE or *)
(* ERROR with ignore not true                                             *)
Falsy(r) == r.state \in {Some(FAILURE), Some(ERROR)} /\ r._ignore # Some(TRUE)

Observed(r) == IF Falsy(r) THEN "falsy" ELSE "truthy"

(* the for loop goes to step k, or is exhausted and timid() returns None *)
LoopTo(k, n) ==
    IF k < n
    THEN /\ pc' = "loop"
         /\ idx' = k
         /\ ret' = ret
    ELSE /\ pc' = "done"
         /\ idx' = idx
         /\ ret' = Some(Return(None))

(* a variant that leaves the loop *)
ContinueBreaks(k, n) ==
    /\ pc' = "done"
    /\ idx' = idx
    /\ ret' = Some(Return(None))

(* line 209: continue *)
Continue(k, n) == LoopTo(k, n)

(* a variant that runs the steps whatever check is *)
CheckReturnsNever(chk) == FALSE

(* lines 196-197: if check: return None *)
CheckReturns(chk) == chk

(* lines 183-197: read the steps of one of the files and pass them through *)
(* the extensions' read_steps, each of which does one of the things in     *)
(* hooks; with check, that is all                                          *)
ReadStepsFrom(files, hooks) ==
    /\ pc = "start"
    /\ \E step_data \in files, chk \in BOOLEAN, behs \in [1..exts -> hooks] :
         LET parsed == parse_file(step_data)
             read   == ExtensionSetCall("read_steps", behs, extdebug, parsed.value)
         IN  /\ test' = step_data
             /\ check' = chk
             /\ IF parsed.kind = "raise"
                THEN /\ ret' = Some(parsed)
                     /\ pc' = "done"
                     /\ UNCHANGED <<steps, idx, extlog>>
                ELSE /\ extlog' = extlog \o read.log
                     /\ IF read.out.kind = "raise"
                        THEN /\ ret' = Some(read.out)
                             /\ pc' = "done"
                             /\ UNCHANGED <<steps, idx>>
                        ELSE /\ steps' = steps \o read.out.value
                             /\ IF CheckReturns(chk)
                                THEN /\ ret' = Some(Return(None))
                                     /\ pc' = "done"
                                     /\ idx' = idx
                                ELSE LoopTo(0, Len(steps'))
    /\ UNCHANGED <<verbose, printed, hist, callvars, exts, extdebug, obj>>

(* the run of the test files, with extensions that keep the default        *)
(* read_steps                                                              *)
ReadSteps == ReadStepsFrom(TestFiles, {Return("nothing")})

(* lines 200-212: the progress line, the extensions' pre_step, and either  *)
(* the SKIPPED line or the invocation of the step                          *)
PreStep ==
    /\ pc = "loop"
    /\ LET step     == steps[idx + 1]
           progress == IF verbose >= 1 THEN <<ProgressLine(idx, step)>> ELSE <<>>
       IN  \E skip \in BOOLEAN :
             IF skip
             THEN /\ printed' = progress \o <<StateName(SKIPPED)>>
                  /\ hist' = Append(hist, "skipped")
                  /\ Continue(idx + 1, Len(steps))
                  /\ UNCHANGED callvars
             ELSE /\ printed' = progress
                  /\ cstep' = Some(step)
                  /\ phase' = "NOT_STARTED"
                  /\ ci' = -1
                  /\ cj' = -1
                  /\ result' = None
                  /\ exc' = None
                  /\ trace' = <<>>
                  /\ pc' = "call"
                  /\ UNCHANGED <<idx, ret, hist>>
    /\ UNCHANGED <<test, check, verbose, steps>>
    /\ UNCHANGED <<extvars, obj>>

(* lines 215-228: the extensions' post_step, the status line, the test of  *)
(* the result                                                              *)
PostStep ==
    /\ pc = "call"
    /\ phase = "DONE"
    /\ \E effect \in ExtEffects :
         LET r == PostStepEffect(Val(result), effect)
         IN  /\ result' = Some(r)
             /\ printed' = printed \o
                    (IF verbose >= 1 THEN <<StatusLine(r)>> ELSE <<>>)
             /\ IF ~StepResultBool(r)
                THEN /\ ret' = Some(Return(Some(FailureMsg(r))))
                     /\ pc' = "done"
                     /\ idx' = idx
                     /\ hist' = Append(hist, Observed(r))
                ELSE /\ hist' = Append(hist, Observed(r))
                     /\ LoopTo(idx + 1, Len(steps))
    /\ UNCHANGED <<test, check, verbose, steps, cstep, phase, ci, cj, exc, trace>>
    /\ UNCHANGED <<extvars, obj>>

(* an exception that leaves the step leaves timid() *)
Propagate ==
    /\ pc = "call"
    /\ phase = "RAISED"
    /\ ret' = Some(Raise(Val(exc)))
    /\ pc' = "done"
    /\ hist' = Append(hist, "raised")
    /\ UNCHANGED <<test, check, verbose, steps, idx, printed, callvars>>
    /\ UNCHANGED <<extvars, obj>>

Init ==
    /\ test = <<>>
    /\ check = FALSE
    /\ verbose \in {0, 1}
    /\ steps = <<>>
    /\ pc = "start"
    /\ idx = 0
    /\ printed = <<>>
    /\ ret = None
    /\ hist = <<>>
    /\ cstep = None
    /\ phase = "NOT_STARTED"
    /\ ci = -1
    /\ cj = -1
    /\ result = None
    /\ exc = None
    /\ trace = <<>>
    /\ exts = 1
    /\ extdebug = 0
    /\ extlog = <<>>
    /\ obj = None

Next ==
    \/ ReadSteps
    \/ PreStep
    \/ (pc = "call" /\ Begin /\ UNCHANGED drivervars)
    \/ (pc = "call" /\ PreCall /\ UNCHANGED drivervars)
    \/ (pc = "call" /\ Act /\ UNCHANGED drivervars)
    \/ (pc = "call" /\ PostCall /\ UNCHANGED drivervars)
    \/ PostStep
    \/ Propagate

Spec == Init /\ [][Next]_vars

-----------------------------------------------------------------------------
(* Reading the state of the driver *)

Returned == pc = "done" /\ ret # None /\ Val(ret).kind = "return"

(* the result of the step visited last has just been tested *)
Tested ==
    /\ pc \in {"loop", "done"}
    /\ hist # <<>>
    /\ hist[Len(hist)] \in {"truthy", "falsy"}

(* the driver went on from the step visited last: to the next step, or to *)
(* the end of the list                                                    *)
WentOn ==
    \/ (pc = "loop" /\ idx = Len(hist) /\ ret = None)
    \/ (pc = "done" /\ Len(hist) = Len(steps) /\ ret = Some(Return(None)))

HasMsg(r) == r.msg # None /\ r.msg # Some("")

(* C33: with verbosity 0 the driver writes nothing to standard output for *)
(* any step, whatever the outcome of the step and whatever the extensions' *)
(* pre_step decided.                                                       *)
C33_QuietPrintsNothing ==
    (pc \in {"loop", "call", "done"} /\ verbose = 0) => printed = <<>>

(* C6: once the tested result of an invoked step is falsy the loop has     *)
(* stopped at that step: it is the last step visited, and timid() has      *)
(* returned "Test step failure", followed by ": " and the message of the   *)
(* result when it has one.                                                 *)
C6_StopOnFalsy ==
    (Tested /\ Falsy(Val(result))) =>
        /\ pc = "done"
        /\ Len(hist) = idx + 1
        /\ cstep = Some(steps[idx + 1])
        /\ ret = Some(Return(Some(
               IF HasMsg(Val(result))
               THEN "Test step failure: " \o Val(Val(result).msg)
               ELSE "Test step failure")))

C6_Witness ==
    /\ Tested
    /\ Falsy(Val(result))
    /\ HasMsg(Val(result))
    /\ Len(steps) = 2
    /\ idx = 0

(* C7: when timid() has run the steps and returned, it returned None if    *)
(* and only if no tested result was falsy; when it returned None every     *)
(* step of the list was visited; when it returned a message, the message   *)
(* is that of the first step whose result was falsy.                       *)
C7_ReturnValue ==
    (Returned /\ ~check) =>
        LET v      == Val(ret).value
            falsy  == {k \in 1..Len(hist) : hist[k] = "falsy"}
        IN  /\ v = None <=> falsy = {}
            /\ v = None =>
                   /\ Len(hist) = Len(steps)
                   /\ \A k \in 1..Len(hist) : hist[k] \in {"skipped", "truthy"}
            /\ v # None =>
                   /\ falsy = {Len(hist)}
                   /\ idx + 1 = Len(hist)
                   /\ cstep = Some(steps[idx + 1])
                   /\ v = Some(IF HasMsg(Val(result))
                               THEN "Test step failure: " \o Val(Val(result).msg)
                               ELSE "Test step failure")

C7_Witness ==
    /\ Returned
    /\ ~check
    /\ Val(ret).value = None
    /\ hist = <<"truthy", "skipped">>

(* C8: a tested result whose ignore flag is true does not stop the loop,   *)
(* whatever its state: the driver goes on to the next step, and the status *)
(* it prints is the state followed by " (ignored)".                        *)
C8_IgnoredGoesOn ==
    (Tested /\ Val(result)._ignore = Some(TRUE)) =>
        /\ WentOn
        /\ verbose >= 1 =>
               printed[Len(printed)] = states[Val(Val(result).state) + 1] \o " (ignored)"

C8_Witness ==
    /\ Tested
    /\ Val(result)._ignore = Some(TRUE)
    /\ Val(result).state = Some(ERROR)
    /\ pc = "loop"
    /\ verbose = 1

(* C9: a step whose action is a command ending with a non-zero return code *)
(* and whose ignore-errors modifier is configured true is run by the       *)
(* driver, yields a result of state FAILURE with ignore true, is reported  *)
(* as "FAILURE (ignored)", and the driver goes on.                         *)
C9_Step == <<Item("run", YStr("exit 1")), Item("ignore-errors", YBool(TRUE))>>

C9_IgnoreErrors ==
    (pc = "done" /\ ~check /\ test = <<C9_Step>>) =>
        /\ hist # <<>>
        /\ hist[1] # "raised"
        /\ (hist[1] # "skipped" /\ Val(result).returncode \notin {None, Some(0)}) =>
               /\ Val(result).state = Some(FAILURE)
               /\ Val(result)._ignore = Some(TRUE)
               /\ verbose >= 1 => printed[Len(printed)] = "FAILURE (ignored)"
               /\ ret = Some(Return(None))

(* the step in hand has a conditional modifier first, its condition false *)
WhenFalse(step) ==
    /\ NMods(step) >= 1
    /\ step.modifiers[1].cls = "ConditionalModifier"
    /\ ~Expression(step.modifiers[1].config)

(* the step of a test file has the key when, with a false condition *)
ConfWhenFalse(step_conf) ==
    \E k \in 1..Len(step_conf) : step_conf[k] = Item("when", YStr("False"))

(* what the invocation of such a step does, and the driver after it *)
SkippedByCondition ==
    (cstep # None /\ WhenFalse(Val(cstep))) =>
        /\ ~ActionInvoked
        /\ \A h \in HookCalls : trace[h].mod = 0
        /\ phase # "RAISED"
        /\ (pc = "call" /\ phase = "DONE") =>
               /\ Len(trace) = 2
               /\ IsCall(1, "pre_call", 0)
               /\ IsCall(2, "post_call", 0)
               /\ Val(result).state = Some(SKIPPED)
               /\ Val(result)._ignore = None
        /\ (Tested /\ phase = "DONE") =>
               /\ Val(result).state = Some(SKIPPED)
               /\ hist[Len(hist)] = "truthy"
               /\ WentOn
               /\ verbose >= 1 =>
                      printed[Len(printed)] \in {"SKIPPED", "SKIPPED (ignored)"}

(* C10: a step carrying a conditional modifier whose condition is false    *)
(* invokes neither its action nor any hook of a later modifier, an         *)
(* ignore-errors modifier on the same step included; its result is SKIPPED *)
(* with the ignore flag unset, and the driver goes on: a test of that one  *)
(* step, whatever its other keys, ends with timid() returning None.        *)
C10_ConditionalSkip ==
    /\ SkippedByCondition
    /\ (pc = "done" /\ ~check /\ Len(test) = 1 /\ ConfWhenFalse(test[1])) =>
           /\ hist # <<>>
           /\ hist[1] \in {"skipped", "truthy"}
           /\ ret = Some(Return(None))

C10_Witness ==
    /\ cstep # None
    /\ WhenFalse(Val(cstep))
    /\ NMods(Val(cstep)) = 2
    /\ Tested
    /\ phase = "DONE"
    /\ pc = "loop"
    /\ Val(result)._ignore = None
    /\ verbose = 1
    /\ printed[Len(printed)] = "SKIPPED"

-----------------------------------------------------------------------------
(* Step.parse_file called on a file of one step, as a caller other than    *)
(* the driver calls it.  trace takes the log of parse_step, closed by the  *)
(* outcome of parse_step itself; ret takes the outcome of parse_file.      *)

ParseItems ==
    {Item("name", YStr("n")), Item("name", YNull),
     Item("run", YStr("exit 1")), Item("act", YNull),
     Item("when", YStr("True")), Item("when", YStr("False")), Item("when", YBool(TRUE)),
     Item("ignore-errors", YBool(TRUE)),
     Item("early", YNull), Item("late", YNull), Item("steponly", YNull),
     Item("bogus", YNull)}
        \cup {Item("include", YStr(f)) : f \in IncludeFiles}

(* a mapping has each key once *)
ParseConfs ==
    {conf \in UNION {[1..n -> ParseItems] : n \in 0..MaxKeys} :
        \A i, j \in 1..Len(conf) : conf[i].key = conf[j].key => i = j}

InitParse ==
    /\ test \in {<<conf>> : conf \in ParseConfs}
    /\ check = FALSE
    /\ verbose = 1
    /\ steps = <<>>
    /\ pc = "parse"
    /\ idx = 0
    /\ printed = <<>>
    /\ ret = None
    /\ hist = <<>>
    /\ cstep = None
    /\ phase = "NOT_STARTED"
    /\ ci = -1
    /\ cj = -1
    /\ result = None
    /\ exc = None
    /\ trace = <<>>
    /\ exts = 0
    /\ extdebug = 0
    /\ extlog = <<>>
    /\ obj = None

ParseFile ==
    /\ pc = "parse"
    /\ LET run    == ParseStepRun(test[1])
           parsed == parse_file(test)
       IN  /\ trace' = Append(run.log, Event("parse_step", -1, None, run.out))
           /\ ret' = Some(parsed)
           /\ steps' = IF parsed.kind = "return" THEN parsed.value ELSE steps
    /\ pc' = "parsed"
    /\ UNCHANGED <<test, check, verbose, idx, printed, hist,
                   cstep, phase, ci, cj, result, exc>>
    /\ UNCHANGED <<extvars, obj>>

NextParse == ParseFile

SpecParse == InitParse /\ [][NextParse]_vars

-----------------------------------------------------------------------------
(* Step.parse_file called on a file whose one step is an include with a    *)
(* start, a stop, both or neither, alone or under a condition.             *)

MaxRange == 3

IncludeBounds == {None} \cup {Some(n) : n \in -MaxRange..MaxRange}

IncludeConfs ==
    {<<Item("include", YInclude(f, start, stop))>> \o cond :
        f \in {"ok.yaml", "long.yaml"}, start \in IncludeBounds, stop \in IncludeBounds,
        cond \in {<<>>, <<Item("when", YStr("True"))>>, <<Item("when", YStr("False"))>>}}

InitInclude ==
    /\ test \in {<<conf>> : conf \in IncludeConfs}
    /\ check = FALSE
    /\ verbose = 1
    /\ steps = <<>>
    /\ pc = "parse"
    /\ idx = 0
    /\ printed = <<>>
    /\ ret = None
    /\ hist = <<>>
    /\ cstep = None
    /\ phase = "NOT_STARTED"
    /\ ci = -1
    /\ cj = -1
    /\ result = None
    /\ exc = None
    /\ trace = <<>>
    /\ exts = 0
    /\ extdebug = 0
    /\ extlog = <<>>
    /\ obj = None

NextInclude == ParseFile

SpecInclude == InitInclude /\ [][NextInclude]_vars

(* the include of the file in hand and the step list of the file it names *)
IncludeConf == test[1][1].conf

Referenced == parse_file(FileData(IncludeConf.v).value).value

(* zero-based position p lies in the range [start, stop), an omitted bound *)
(* meaning the start or the end of the list                                *)
InRange(p, start, stop) ==
    /\ start # None => Val(start) <= p
    /\ stop # None => p < Val(stop)

(* the steps of the list from position p on whose position is in the range *)
RECURSIVE StepsInRange(_, _, _, _)
StepsInRange(list, p, start, stop) ==
    IF p >= Len(list) THEN <<>>
    ELSE (IF InRange(p, start, stop) THEN <<list[p + 1]>> ELSE <<>>)
             \o StepsInRange(list, p + 1, start, stop)

(* C30: an include that was invoked and returned includes exactly the      *)
(* steps of the referenced list whose zero-based position lies in the      *)
(* range [start, stop), in their original order; without start and stop it *)
(* includes every step of the list.                                        *)
C30_IncludeRange ==
    (pc = "parsed" /\ IncludeConf.t = "object" /\ "start" \in DOMAIN IncludeConf
        /\ Val(ret).kind = "return") =>
        Val(ret).value = StepsInRange(Referenced, 0, IncludeConf.start, IncludeConf.stop)

-----------------------------------------------------------------------------
(* Reading the log of parse_step *)

Parsed == pc = "parsed"

ParseOut == trace[Len(trace)].out

ActionNames == {"run", "act", "include"}

ModifierNames == {"when", "ignore-errors", "early", "late", "steponly"}

KeysIn(conf, names) == {k \in 1..Len(conf) : conf[k].key \in names}

NothingBuilt ==
    /\ Calls("init") = {}
    /\ Calls("action_conf") = {}
    /\ Calls("Step") = {}
    /\ Calls("__call__") = {}

(* C13: parse_step fails with ConfigError when no key of the step names an *)
(* action and when two or more do, having constructed nothing and called   *)
(* no action_conf; a step that resolves has exactly one action key.        *)
C13_OneAction ==
    Parsed =>
        LET n == Cardinality(KeysIn(test[1], ActionNames))
        IN  /\ n # 1 => (ParseOut = Raise("ConfigError") /\ NothingBuilt)
            /\ ParseOut.kind = "return" => n = 1

(* C14: a step with a key that is neither a reserved field, a registered   *)
(* action name nor a registered modifier name fails with ConfigError,      *)
(* having constructed no modifier, no action and no Step and called no     *)
(* action_conf.                                                            *)
C14_UnknownKey ==
    (Parsed /\ KeysIn(test[1], {"bogus"}) # {}) =>
        /\ ParseOut = Raise("ConfigError")
        /\ NothingBuilt
        /\ steps = <<>>

(* the Steps parse_step has built, and where a key stands in the mapping *)
BuiltSteps == {trace[k].out.value : k \in Calls("Step")}

KeyIndex(conf, name) == CHOOSE k \in 1..Len(conf) : conf[k].key = name

(* the modifiers are constructed in the order 0, 1, 2, ..., each           *)
(* constructor followed at once by the action_conf of the same modifier    *)
BuiltInOrder(n) ==
    \A i \in 0..(n - 1) :
        /\ IsCall(2 * i + 1, "init", i)
        /\ IsCall(2 * i + 2, "action_conf", i)

(* C15: the modifiers of every Step parse_step builds are in               *)
(* non-decreasing priority order, those of equal priority in the order of  *)
(* their keys in the mapping; they were constructed, and their action_conf *)
(* called, in that order.                                                  *)
C15_PriorityOrder ==
    Parsed =>
        \A step \in BuiltSteps :
            LET mods == step.modifiers
            IN  /\ \A i, j \in 1..Len(mods) :
                       i < j =>
                           /\ Priority(mods[i].cls) <= Priority(mods[j].cls)
                           /\ Priority(mods[i].cls) = Priority(mods[j].cls) =>
                                  KeyIndex(test[1], mods[i].name)
                                      < KeyIndex(test[1], mods[j].name)
                /\ BuiltInOrder(Len(mods))
                /\ \A i \in 1..Len(mods) :
                       trace[2 * i - 1].arg =
                           Some(test[1][KeyIndex(test[1], mods[i].name)].conf)

C15_Witness ==
    /\ Parsed
    /\ test[1] = <<Item("late", YNull), Item("early", YNull), Item("run", YStr("exit 1"))>>
    /\ BuiltSteps # {}

C15_WitnessTie ==
    /\ Parsed
    /\ test[1] = <<Item("steponly", YNull), Item("include", YStr("ok.yaml")),
                   Item("when", YStr("True"))>>
    /\ \E step \in BuiltSteps : step.modifiers[1].name = "steponly"

(* the configuration found under the action key of the mapping *)
RawConf(conf) == conf[CHOOSE k \in KeysIn(conf, ActionNames) : TRUE].conf

(* the i-th call of action_conf in the log, i from 0 *)
HookAt(i) == trace[CHOOSE k \in CallsOf("action_conf", i) : TRUE]

(* C16: the action is constructed at most once, and once for a Step that   *)
(* is built, with the value of the fold of the action_conf hooks over the  *)
(* raw configuration in the order of the modifiers: the first hook gets    *)
(* the raw value, each later hook gets what the previous one returned, the *)
(* action gets what the last one returned, and the raw value itself when   *)
(* the step has no modifier key.                                           *)
C16_ActionConfFold ==
    Parsed =>
        LET n == Cardinality(Calls("action_conf"))
        IN  /\ Cardinality(CallsOf("init", -1)) <= 1
            /\ BuiltSteps # {} => Cardinality(CallsOf("init", -1)) = 1
            /\ \A i \in 0..(n - 1) :
                   /\ Cardinality(CallsOf("action_conf", i)) = 1
                   /\ HookAt(i).arg =
                          IF i = 0 THEN Some(RawConf(test[1]))
                          ELSE Some(HookAt(i - 1).out.value)
            /\ \A k \in CallsOf("init", -1) :
                   /\ \A h \in Calls("action_conf") : h < k
                   /\ trace[k].arg =
                          IF n = 0 THEN Some(RawConf(test[1]))
                          ELSE Some(HookAt(n - 1).out.value)
            /\ \A step \in BuiltSteps :
                   KeysIn(test[1], ModifierNames) = {} =>
                       /\ step.modifiers = <<>>
                       /\ step.action.config = InitConf(step.action.cls, RawConf(test[1]))

C16_Witness ==
    /\ Parsed
    /\ test[1] = <<Item("run", YStr("exit 1")), Item("late", YNull), Item("early", YNull)>>
    /\ \E step \in BuiltSteps : step.action.config = YStr("exit 1+early+late")

(* the class a key of the model stands for *)
NamedClass(key) ==
    CASE key = "run"           -> "RunAction"
      [] key = "act"           -> "PluginAction"
      [] key = "include"       -> "IncludeAction"
      [] key = "when"          -> "ConditionalModifier"
      [] key = "ignore-errors" -> "IgnoreErrorsModifier"
      [] key = "early"         -> "EarlyModifier"
      [] key = "late"          -> "LateModifier"
      [] key = "steponly"      -> "StepOnlyModifier"

(* the mask of the modifier class excludes the category of the action class *)
Excludes(mod_cls, action_cls) ==
    \/ (mod_cls \in {"IgnoreErrorsModifier", "EarlyModifier", "LateModifier"}
            /\ action_cls = "IncludeAction")
    \/ (mod_cls = "StepOnlyModifier" /\ action_cls \in {"RunAction", "PluginAction"})

(* the mapping has one action key and only keys the registry or the Step   *)
(* schemas know                                                            *)
OneActionKnownKeys(conf) ==
    /\ Cardinality(KeysIn(conf, ActionNames)) = 1
    /\ \A k \in 1..Len(conf) : conf[k].key \in ActionNames \cup ModifierNames \cup StepSchemas

ActionClassOf(conf) == NamedClass(conf[CHOOSE k \in KeysIn(conf, ActionNames) : TRUE].key)

(* the modifier keys of the mapping as items, in ascending priority order *)
ModsInOrder(conf) ==
    LET IsMod(item) == item.key \in ModifierNames
        keys == SelectSeq(conf, IsMod)
    IN  IterPrioDict([k \in 1..Len(keys) |->
                         StepItem(NamedClass(keys[k].key), keys[k].key, keys[k].conf)])

ExcludedAt(conf) ==
    {k \in 1..Len(ModsInOrder(conf)) :
        Excludes(ModsInOrder(conf)[k].cls, ActionClassOf(conf))}

(* C17: a step with a modifier whose restriction excludes the category of  *)
(* its action fails with ConfigError; the modifiers before the first such  *)
(* modifier in ascending priority order were constructed and had           *)
(* action_conf called once each, that modifier and the later ones were not *)
(* constructed, nor the action, nor a Step; and a step whose only modifier *)
(* is the unrestricted conditional is built with an action of either       *)
(* category.                                                               *)
C17_Restriction ==
    (Parsed /\ OneActionKnownKeys(test[1])) =>
        LET conf == test[1]
            bad  == ExcludedAt(conf)
            k    == (CHOOSE i \in bad : \A j \in bad : i <= j) - 1
        IN  /\ bad # {} =>
                /\ ParseOut = Raise("ConfigError")
                /\ \A e \in Calls("init") : trace[e].mod \in 0..(k - 1)
                /\ \A e \in Calls("action_conf") : trace[e].mod \in 0..(k - 1)
                /\ Calls("Step") = {}
                /\ (\A e \in Calls("init") : trace[e].out.kind = "return") =>
                       /\ BuiltInOrder(k)
                       /\ Len(trace) = 2 * k + 1
            /\ (KeysIn(conf, ModifierNames \ {"when"}) = {}
                   /\ KeysIn(conf, {"name"}) = {}
                   /\ Item("when", YBool(TRUE)) \notin {conf[i] : i \in 1..Len(conf)}) =>
                   BuiltSteps # {}

(* C18: when parse_step returns, it returns a list of Steps: for a normal  *)
(* action the list of the one Step it built, which it did not invoke; for  *)
(* a step action what the one invocation of the Step it built returned, a  *)
(* list of Steps whatever the modifiers of the step.                       *)
C18_ReturnsSteps ==
    (Parsed /\ ParseOut.kind = "return") =>
        /\ IsStepList(ParseOut.value)
        /\ Cardinality(BuiltSteps) = 1
        /\ \A step \in BuiltSteps :
               IF StepActionFlag(step.action.cls)
               THEN /\ Cardinality(Calls("__call__")) = 1
                    /\ \A k \in Calls("__call__") :
                           ParseOut.value = Val(trace[k].out.value)
               ELSE /\ Calls("__call__") = {}
                    /\ Calls("action") = {}
                    /\ ParseOut.value = StepList(<<step>>)

C18_Witness ==
    /\ Parsed
    /\ test[1] = <<Item("include", YStr("ok.yaml")), Item("when", YStr("True"))>>
    /\ IsStepList(ParseOut.value)
    /\ Len(ParseOut.value.steps) = 2
    /\ steps = ParseOut.value.steps

(* C19: a ConfigError raised while the step is resolved, by parse_step     *)
(* itself or by the include action parsing the file it names, is what      *)
(* parse_file raises to its caller, and no step comes out of the parse.    *)
C19_ConfigErrorSurfaces ==
    Parsed =>
        /\ ParseOut = Raise("ConfigError") =>
               (ret = Some(Raise("ConfigError")) /\ steps = <<>>)
        /\ \A k \in Calls("action") :
               trace[k].out = Raise("ConfigError") =>
                   (ret = Some(Raise("ConfigError")) /\ steps = <<>>)

C19_Witness ==
    /\ Parsed
    /\ test[1] = <<Item("run", YStr("exit 1")), Item("bogus", YNull)>>
    /\ ret = Some(Raise("ConfigError"))

(* C20: a StepResult constructed without a state infers it: SUCCESS from   *)
(* the return code 0, FAILURE from any other return code, ERROR from       *)
(* exception info; so for every result a command's return code or an       *)
(* action's exception gave during an invocation.                           *)
C20_StateInference ==
    /\ \A rc \in -2..3 :
           StepResult(None, None, None, Some(rc), None, None).state =
               Some(IF rc = 0 THEN SUCCESS ELSE FAILURE)
    /\ StepResult(None, None, None, None, Some("OSError"), None).state = Some(ERROR)
    /\ \A k \in Calls("action") :
           /\ (trace[k].out.kind = "return" /\ trace[k].out.value # None
                   /\ Val(trace[k].out.value).returncode # None) =>
                  Val(trace[k].out.value).state =
                      Some(IF Val(trace[k].out.value).returncode = Some(0)
                           THEN SUCCESS ELSE FAILURE)
           /\ (trace[k].out.kind = "raise" /\ k = Len(trace) /\ phase # "RAISED") =>
                  /\ Val(result).exc_info = Some(trace[k].out.exc)
                  /\ Val(result).state = Some(ERROR)

C20_Witness ==
    /\ Val(cstep).action.cls = "RunAction"
    /\ \E k \in Calls("action") :
           /\ trace[k].out.kind = "return"
           /\ Val(trace[k].out.value).returncode = Some(2)
           /\ Val(trace[k].out.value).state = Some(FAILURE)

(* C11: when the extensions' pre_step asks to skip the step at index k, the *)
(* driver neither invokes the step nor calls post_step for it, prints      *)
(* SKIPPED, and goes on to step k + 1, or returns None when k was the last *)
(* step.                                                                   *)
C11_SkipGoesOn ==
    [][(pc = "loop" /\ hist' = Append(hist, "skipped")) =>
           /\ UNCHANGED callvars
           /\ pc' # "call"
           /\ printed'[Len(printed')] = "SKIPPED"
           /\ \/ (idx + 1 < Len(steps) /\ pc' = "loop" /\ idx' = idx + 1 /\ ret' = None)
              \/ (idx + 1 = Len(steps) /\ pc' = "done" /\ ret' = Some(Return(None)))]_vars

C11_Witness ==
    /\ hist = <<"skipped">>
    /\ pc = "loop"
    /\ idx = 1
    /\ cstep = None
    /\ printed[Len(printed)] = "SKIPPED"

(* C12: the progress line printed for the step at position k of the list,  *)
(* counted from 0, shows the index k + 1 and the name of the step.         *)
C12_ProgressIndex ==
    (pc = "call" /\ verbose >= 1) =>
        printed[1] = "[Step " \o ToString(idx + 1) \o "]: "
                         \o steps[idx + 1].name \o " . . . "

-----------------------------------------------------------------------------
(* steps.py: a StepResult on its own: constructed, its ignore flag assigned, *)
(* and tested                                                               *)

ResultStates == {SKIPPED, SUCCESS, FAILURE, ERROR}

Children ==
    {StepResult(Some(s), None, g, None, None, None) : s \in ResultStates, g \in Ignores}

ChildLists == UNION {[1..n -> Children] : n \in 0..MaxChildren}

(* the arguments of StepResult(...): the scalar ones in every combination, *)
(* and a list of children with or without a state and an ignore            *)
ResultArgs ==
    [state : {None} \cup {Some(s) : s \in ResultStates}, ignore : Ignores,
     returncode : {None, Some(0), Some(2)}, exc_info : {None, Some("OSError")},
     results : {None}]
    \cup
    [state : {None, Some(SUCCESS)}, ignore : Ignores,
     returncode : {None, Some(0)}, exc_info : {None},
     results : {Some(c) : c \in ChildLists}]
    \cup
    [state : {None}, ignore : {None},
     returncode : {None, Some(0), Some(2)}, exc_info : {None, Some("OSError")},
     results : {Some(c) : c \in ChildLists}]

InitResult ==
    /\ test = <<>>
    /\ check = FALSE
    /\ verbose = 1
    /\ steps = <<>>
    /\ pc = "new"
    /\ idx = 0
    /\ printed = <<>>
    /\ ret = None
    /\ hist = <<>>
    /\ cstep = None
    /\ phase = "NOT_STARTED"
    /\ ci = -1
    /\ cj = -1
    /\ result = None
    /\ exc = None
    /\ trace = <<>>
    /\ exts = 0
    /\ extdebug = 0
    /\ extlog = <<>>
    /\ obj = None

(* StepResult(state=..., ignore=..., returncode=..., exc_info=..., results=...) *)
NewResult ==
    /\ pc = "new"
    /\ \E a \in ResultArgs :
         LET out == StepResultInit(a.state, None, a.ignore, a.returncode,
                                   a.exc_info, a.results)
         IN  /\ trace' = <<Event("__init__", -1, Some(a), out)>>
             /\ IF out.kind = "raise"
                THEN /\ pc' = "raised"
                     /\ exc' = Some(out.exc)
                     /\ result' = result
                ELSE /\ pc' = "result"
                     /\ exc' = exc
                     /\ result' = out.value
    /\ UNCHANGED <<test, check, verbose, steps, idx, printed, ret, hist,
                   cstep, phase, ci, cj>>
    /\ UNCHANGED <<extvars, obj>>

(* result.ignore = value *)
SetIgnore ==
    /\ pc = "result"
    /\ Len(trace) <= MaxAssign
    /\ \E value \in BOOLEAN :
         /\ result' = Some(IgnoreSet(Val(result), value))
         /\ trace' = Append(trace, Event("ignore", -1, Some(value), Return(result')))
    /\ UNCHANGED <<test, check, verbose, steps, pc, idx, printed, ret, hist,
                   cstep, phase, ci, cj, exc>>
    /\ UNCHANGED <<extvars, obj>>

(* bool(result) *)
TestResult ==
    /\ pc = "result"
    /\ hist' = <<IF StepResultBool(Val(result)) THEN "true" ELSE "false">>
    /\ pc' = "tested"
    /\ UNCHANGED <<test, check, verbose, steps, idx, printed, ret,
                   cstep, phase, ci, cj, result, exc, trace>>
    /\ UNCHANGED <<extvars, obj>>

NextResult ==
    \/ NewResult
    \/ SetIgnore
    \/ TestResult

SpecResult == InitResult /\ [][NextResult]_vars

-----------------------------------------------------------------------------
(* Claims about StepResult *)

Constructed == Len(trace) >= 1 /\ trace[1].op = "__init__" /\ trace[1].out.kind = "return"

InitArgs == Val(trace[1].arg)

AtInit == Val(trace[1].out.value)

(* the values assigned to .ignore, in order *)
Assigned == [k \in 1..(Len(trace) - 1) |-> Val(trace[k + 1].arg)]

(* the result as assignment k left it: as constructed for k = 0 *)
After(k) == Val(trace[k + 1].out.value)

(* C21: a StepResult constructed from a list of child results alone, with  *)
(* no state and no ignore given, has the greatest of the children's states *)
(* under SKIPPED < SUCCESS < FAILURE < ERROR and ignores errors exactly     *)
(* when a child does.                                                      *)
C21_ChildrenInference ==
    (/\ Constructed
     /\ InitArgs.results # None
     /\ InitArgs.state = None
     /\ InitArgs.ignore = None
     /\ InitArgs.returncode = None
     /\ InitArgs.exc_info = None) =>
        LET kids == Val(InitArgs.results)
        IN  /\ \E k \in 1..Len(kids) : AtInit.state = kids[k].state
            /\ \A k \in 1..Len(kids) : Val(kids[k].state) <= Val(AtInit.state)
            /\ AtInit._ignore = Some(\E k \in 1..Len(kids) : kids[k]._ignore = Some(TRUE))
            /\ IgnoreGet(AtInit) = (\E k \in 1..Len(kids) : IgnoreGet(kids[k]))

C21_Witness ==
    /\ Constructed
    /\ InitArgs.state = None
    /\ InitArgs.ignore = None
    /\ InitArgs.returncode = None
    /\ InitArgs.results # None
    /\ Len(Val(InitArgs.results)) = 2
    /\ Val(InitArgs.results)[1].state = Some(SUCCESS)
    /\ Val(InitArgs.results)[2].state = Some(ERROR)
    /\ Val(InitArgs.results)[1]._ignore = Some(TRUE)
    /\ Val(InitArgs.results)[2]._ignore = None
    /\ AtInit.state = Some(ERROR)
    /\ AtInit._ignore = Some(TRUE)

(* C22: a StepResult in one of the four states tests true exactly when its *)
(* ignore flag is true or its state is SKIPPED or SUCCESS, and false       *)
(* exactly when its state is FAILURE or ERROR and its flag is unset or     *)
(* false.                                                                  *)
C22_Truthiness ==
    (pc = "tested" /\ Val(result).state # None) =>
        LET r == Val(result)
        IN  /\ hist[1] = "true" <=>
                   (r._ignore = Some(TRUE) \/ Val(r.state) \in {SKIPPED, SUCCESS})
            /\ hist[1] = "false" <=>
                   (/\ Val(r.state) \in {FAILURE, ERROR}
                    /\ r._ignore \in {None, Some(FALSE)})

C22_Witness ==
    /\ pc = "tested"
    /\ Len(trace) = 2
    /\ AtInit.state = Some(SKIPPED)
    /\ AtInit._ignore = None
    /\ Val(result)._ignore = Some(FALSE)
    /\ hist = <<"true">>

(* C23: the ignore flag is written once: after any assignments the stored  *)
(* value is the one given at construction if that was True or False, and   *)
(* otherwise that of the first assignment made while nothing was stored;   *)
(* an assignment made while True or False is stored changes nothing.       *)
C23_FirstWriteWins ==
    (Constructed /\ pc \in {"result", "tested"}) =>
        /\ InitArgs.ignore # None => Val(result)._ignore = InitArgs.ignore
        /\ (AtInit._ignore = None /\ Len(Assigned) >= 1) =>
               Val(result)._ignore = Some(Assigned[1])
        /\ \A k \in 1..Len(Assigned) :
               /\ After(k - 1)._ignore # None => After(k) = After(k - 1)
               /\ After(k - 1)._ignore = None => After(k)._ignore = Some(Assigned[k])
        /\ After(Len(Assigned)) = Val(result)

C23_Witness ==
    /\ Constructed
    /\ AtInit._ignore = None
    /\ AtInit.state = Some(FAILURE)
    /\ Len(Assigned) = 2
    /\ Assigned[1] = TRUE
    /\ Assigned[2] = FALSE
    /\ Val(result)._ignore = Some(TRUE)

-----------------------------------------------------------------------------
(* steps.py: one Step invoked several times.  ctxt.steps keeps the Step as *)
(* it was built; hist and ret keep the calls and the outcome of the first  *)
(* invocation, and idx counts the invocations that have ended.             *)

(* a variant in which an invocation uses up the first modifier of the list *)
StepAfterCallConsumed(step) ==
    IF step.modifiers = <<>> THEN step ELSE [step EXCEPT !.modifiers = Tail(@)]

(* lines 554-593: __call__ assigns nothing to self *)
StepAfterCall(step) == step

(* the Steps invoked again carry up to MaxAgainMods modifiers *)
MaxAgainMods == 2

AgainSteps == {s \in UnitSteps : NMods(s) <= MaxAgainMods}

(* how the invocation that has ended left: what it returned or raised *)
Outcome == IF phase = "RAISED" THEN Raise(Val(exc)) ELSE Return(result)

InitAgain ==
    /\ test = <<>>
    /\ check = FALSE
    /\ verbose = 1
    /\ \E s \in AgainSteps :
         /\ steps = <<s>>
         /\ cstep = Some(s)
    /\ pc = "again"
    /\ idx = 0
    /\ printed = <<>>
    /\ ret = None
    /\ hist = <<>>
    /\ phase = "NOT_STARTED"
    /\ ci = -1
    /\ cj = -1
    /\ result = None
    /\ exc = None
    /\ trace = <<>>
    /\ exts = 0
    /\ extdebug = 0
    /\ extlog = <<>>
    /\ obj = None

(* step(ctxt) once more, on the Step the invocation before left *)
Again ==
    /\ pc = "again"
    /\ phase \in {"DONE", "RAISED"}
    /\ idx + 1 < MaxInvocations
    /\ idx' = idx + 1
    /\ hist' = IF idx = 0 THEN trace ELSE hist
    /\ ret' = IF idx = 0 THEN Some(Outcome) ELSE ret
    /\ cstep' = Some(StepAfterCall(Val(cstep)))
    /\ phase' = "NOT_STARTED"
    /\ ci' = -1
    /\ cj' = -1
    /\ result' = None
    /\ exc' = None
    /\ trace' = <<>>
    /\ UNCHANGED <<test, check, verbose, steps, pc, printed>>
    /\ UNCHANGED <<extvars, obj>>

(* lines 566-589: a later invocation calls the hooks and the action anew,   *)
(* and each call gives whatever it gives then                              *)
NextAgain ==
    \/ Begin /\ UNCHANGED drivervars
    \/ PreCall /\ UNCHANGED drivervars
    \/ Act /\ UNCHANGED drivervars
    \/ PostCall /\ UNCHANGED drivervars
    \/ Again

SpecAgain == InitAgain /\ [][NextAgain]_vars

(* the hooks and the action have behaved in this invocation as they did in *)
(* the first: each call made so far that the first invocation also made at *)
(* the same place, with the same argument, gave what it gave then          *)
SameBehaviour ==
    \A k \in 1..Len(trace) :
        (/\ k <= Len(hist)
         /\ hist[k].op = trace[k].op
         /\ hist[k].mod = trace[k].mod
         /\ hist[k].arg = trace[k].arg) => trace[k].out = hist[k].out

(* C24: invoking a Step leaves it as it was built, action, modifiers and   *)
(* their order, whatever the hooks and the action do; and a later          *)
(* invocation in which the hooks and the action behave as in the first     *)
(* makes the calls of the first, in the same order, and ends as the first  *)
(* did.                                                                    *)
C24_Reinvocation ==
    pc = "again" =>
        /\ cstep = Some(steps[1])
        /\ (idx > 0 /\ SameBehaviour) =>
               /\ Len(trace) <= Len(hist)
               /\ \A k \in 1..Len(trace) :
                      /\ trace[k].op = hist[k].op
                      /\ trace[k].mod = hist[k].mod
                      /\ trace[k].arg = hist[k].arg
                      /\ trace[k].out = hist[k].out
               /\ phase \in {"DONE", "RAISED"} =>
                      /\ Len(trace) = Len(hist)
                      /\ Outcome = Val(ret)

C24_Witness ==
    /\ pc = "again"
    /\ idx = 1
    /\ phase = "DONE"
    /\ NMods(Val(cstep)) = 2
    /\ Len(trace) = 5
    /\ trace[3].op = "action"
    /\ SameBehaviour
    /\ trace = hist
    /\ Val(result).msg = Some("rewritten")

-----------------------------------------------------------------------------
(* extensions.py: one method of an ExtensionSet called once.  extlog gets  *)
(* the call of the method, as extension 0, and then the hook calls.        *)

ExtMethods == {"read_steps", "pre_step", "post_step", "finalize"}

ExtRaises == {Raise("ExtError"), Raise("KeyboardInterrupt")}

ExtBehaviours(method) ==
    CASE method = "read_steps" -> {Return("nothing"), Return("drop")} \cup ExtRaises
      [] method = "pre_step"   -> {Return(FALSE), Return(TRUE)} \cup ExtRaises
      [] method = "post_step"  -> {Return(e) : e \in ExtEffects} \cup ExtRaises
      [] OTHER ->
             {Return(None), Return(Some(PyNone)), Return(Some(PyExc("ExtFailure")))}
                 \cup ExtRaises

(* what the method is called on *)
ExtValue(method) ==
    CASE method = "read_steps" ->
             parse_file(<< <<Item("run", YStr("exit 1"))>>, <<Item("act", YNull)>> >>).value
      [] method = "pre_step" ->
             parse_file(<< <<Item("run", YStr("exit 1"))>> >>).value[1]
      [] method = "post_step" -> StepResult(None, None, None, Some(2), None, None)
      [] OTHER -> PyStr("Test step failure")

InitExt ==
    /\ test = <<>>
    /\ check = FALSE
    /\ verbose = 1
    /\ steps = <<>>
    /\ pc = "ext"
    /\ idx = 0
    /\ printed = <<>>
    /\ ret = None
    /\ hist = <<>>
    /\ cstep = None
    /\ phase = "NOT_STARTED"
    /\ ci = -1
    /\ cj = -1
    /\ result = None
    /\ exc = None
    /\ trace = <<>>
    /\ exts \in 0..MaxExts
    /\ extdebug \in {0, 1}
    /\ extlog = <<>>
    /\ obj = None

CallExtensions ==
    /\ pc = "ext"
    /\ \E method \in ExtMethods :
         \E behs \in [1..exts -> ExtBehaviours(method)] :
           LET run == ExtensionSetCall(method, behs, extdebug, ExtValue(method))
           IN  /\ extlog' = <<Event(method, 0, Some(ExtValue(method)), run.out)>> \o run.log
               /\ ret' = Some(run.out)
    /\ pc' = "ext_done"
    /\ UNCHANGED <<test, check, verbose, steps, idx, printed, hist, callvars,
                   exts, extdebug, obj>>

NextExt == CallExtensions

SpecExt == InitExt /\ [][NextExt]_vars

(* the hook calls of the method that was called *)
HookLog == Tail(extlog)

(* C27: with extension debugging disabled, an Exception raised by the hook  *)
(* of an extension does not leave the ExtensionSet method, and the hook of  *)
(* the next extension is still called: the hooks are called in the order of *)
(* the extensions, and the method raises only what is not an Exception.     *)
C27_ExtensionErrorIgnored ==
    (pc = "ext_done" /\ extdebug = 0) =>
        /\ \A k \in 1..Len(HookLog) :
               /\ HookLog[k].mod = k
               /\ HookLog[k].op = extlog[1].op
               /\ (HookLog[k].out.kind = "raise" /\ IsException(HookLog[k].out.exc)) =>
                      /\ extlog[1].out # HookLog[k].out
                      /\ k < exts => Len(HookLog) > k
        /\ extlog[1].out.kind = "raise" => ~IsException(extlog[1].out.exc)

C27_Witness ==
    /\ pc = "ext_done"
    /\ extdebug = 0
    /\ exts = 2
    /\ extlog[1].op = "finalize"
    /\ Len(HookLog) = 2
    /\ HookLog[1].out = Raise("ExtError")
    /\ HookLog[2].out = Return(PyNone)
    /\ ret = Some(Return(PyNone))

-----------------------------------------------------------------------------
(* main.py: _processor around timid(), with the extensions' read_steps and *)
(* finalize followed call by call.  pc ends as final, when _processor      *)
(* yields its result, or as exit, when an exception leaves it.             *)

ProcFiles ==
    {<<>>,
     << <<Item("run", YStr("exit 1"))>> >>,
     << <<Item("act", YNull)>> >>,
     << <<Item("run", YStr("exit 1")), Item("when", YStr("True"))>> >>,
     << <<Item("run", YStr("exit 1")), Item("ignore-errors", YBool(TRUE))>> >>}

ProcReadSteps == {Return("nothing"), Return("drop"), Raise("ExtError")}

ProcFinalize ==
    {Return(None), Return(Some(PyNone)), Return(Some(PyExc("ExtFailure"))),
     Raise("ExtError")}

(* lines 277-287: what timid() returned, or the exception it raised *)
TimidResult(out) ==
    IF out.kind = "raise" THEN PyExc(out.exc)
    ELSE IF out.value = None THEN PyNone
    ELSE PyStr(Val(out.value))

(* lines 289-295: after finalize *)
Finalized(arg, fin) ==
    /\ extlog' = extlog \o <<Event("finalize", 0, Some(arg), fin.out)>> \o fin.log
                     \o (IF fin.out.kind = "raise" THEN <<>>
                         ELSE <<Event("yield", 0, None, Return(Str(fin.out.value)))>>)
    /\ pc' = IF fin.out.kind = "raise" THEN "exit" ELSE "final"

(* lines 277-295: timid() has ended *)
Finalize ==
    /\ pc = "done"
    /\ IF Val(ret).kind = "raise" /\ ~IsException(Val(ret).exc)
       THEN /\ pc' = "exit"
            /\ extlog' = extlog
       ELSE \E behs \in [1..exts -> ProcFinalize] :
              Finalized(TimidResult(Val(ret)),
                        ExtensionSetCall("finalize", behs, extdebug, TimidResult(Val(ret))))
    /\ UNCHANGED <<test, check, verbose, steps, idx, printed, ret, hist, callvars,
                   exts, extdebug, obj>>

InitProc ==
    /\ test = <<>>
    /\ check = FALSE
    /\ verbose = 1
    /\ steps = <<>>
    /\ pc = "start"
    /\ idx = 0
    /\ printed = <<>>
    /\ ret = None
    /\ hist = <<>>
    /\ cstep = None
    /\ phase = "NOT_STARTED"
    /\ ci = -1
    /\ cj = -1
    /\ result = None
    /\ exc = None
    /\ trace = <<>>
    /\ exts \in 0..MaxExts
    /\ extdebug \in {0, 1}
    /\ extlog = <<>>
    /\ obj = None

(* without extensions pre_step returns False and post_step leaves the      *)
(* result as it is                                                         *)
NextProc ==
    \/ ReadStepsFrom(ProcFiles, ProcReadSteps)
    \/ (PreStep /\ (exts = 0 => pc' = "call"))
    \/ (pc = "call" /\ Begin /\ UNCHANGED drivervars)
    \/ (pc = "call" /\ PreCall /\ UNCHANGED drivervars)
    \/ (pc = "call" /\ Act /\ UNCHANGED drivervars)
    \/ (pc = "call" /\ PostCall /\ UNCHANGED drivervars)
    \/ (PostStep /\ (exts = 0 => result' = result))
    \/ Propagate
    \/ Finalize

SpecProc == InitProc /\ [][NextProc]_vars

(* the calls of the hooks of the extensions named op *)
HookCallsOf(op) == SelectSeq(extlog, LAMBDA e : e.op = op /\ e.mod > 0)

(* the calls _processor made of the extension set's finalize *)
FinalizeCalls == SelectSeq(extlog, LAMBDA e : e.op = "finalize" /\ e.mod = 0)

TimidEnded == pc \in {"done", "final", "exit"}

(* C25: with check, timid() parses the steps, passes them through the      *)
(* read_steps of each extension in turn, and returns None; no step is      *)
(* invoked, nothing is printed for a step, and neither pre_step nor        *)
(* post_step is reached: reading the steps is the only step timid() takes. *)
C25_CheckOnly ==
    (check /\ pc # "start") =>
        /\ TimidEnded
        /\ hist = <<>>
        /\ printed = <<>>
        /\ cstep = None
        /\ trace = <<>>
        /\ result = None
        /\ parse_file(test).kind = "raise" =>
               (ret = Some(parse_file(test)) /\ HookCallsOf("read_steps") = <<>>)
        /\ parse_file(test).kind = "return" =>
               /\ \A k \in 1..Len(HookCallsOf("read_steps")) :
                      HookCallsOf("read_steps")[k].mod = k
               /\ exts > 0 =>
                      HookCallsOf("read_steps")[1].arg = Some(parse_file(test).value)
               /\ (\A k \in 1..Len(HookCallsOf("read_steps")) :
                       extdebug = 0 \/ HookCallsOf("read_steps")[k].out.kind = "return") =>
                      /\ Len(HookCallsOf("read_steps")) = exts
                      /\ ret = Some(Return(None))
                      /\ Len(steps) <= Len(parse_file(test).value)
                      /\ steps = SubSeq(parse_file(test).value, 1, Len(steps))

C25_Witness ==
    /\ check
    /\ pc = "done"
    /\ exts = 2
    /\ Len(test) = 1
    /\ Len(HookCallsOf("read_steps")) = 2
    /\ HookCallsOf("read_steps")[1].out = Raise("ExtError")
    /\ Len(steps) = 1
    /\ steps[1].action.cls = "PluginAction"
    /\ ret = Some(Return(None))
    /\ hist = <<>>

(* C26: _processor calls the extension set's finalize once, after timid()  *)
(* has returned or raised an Exception and not before, with what timid()   *)
(* returned or with the exception; what it yields is what finalize         *)
(* returned, or the string form of that when it is an exception.           *)
C26_FinalizeOnce ==
    /\ pc \notin {"final", "exit"} => FinalizeCalls = <<>>
    /\ (pc \in {"final", "exit"} /\ (Val(ret).kind = "return" \/ IsException(Val(ret).exc))) =>
           /\ Len(FinalizeCalls) = 1
           /\ Val(ret).kind = "raise" => FinalizeCalls[1].arg = Some(PyExc(Val(ret).exc))
           /\ (Val(ret).kind = "return" /\ Val(ret).value = None) =>
                  FinalizeCalls[1].arg = Some(PyNone)
           /\ (Val(ret).kind = "return" /\ Val(ret).value # None) =>
                  FinalizeCalls[1].arg = Some(PyStr(Val(Val(ret).value)))
    /\ pc = "final" =>
           LET fin      == FinalizeCalls[1].out.value
               yielded  == extlog[Len(extlog)]
           IN  /\ yielded.op = "yield"
               /\ Len(SelectSeq(extlog, LAMBDA e : e.op = "yield")) = 1
               /\ fin.t # "exc" => yielded.out = Return(fin)
               /\ fin.t = "exc" => yielded.out = Return(PyStr("str(" \o fin.v \o ")"))

C26_Witness ==
    /\ pc = "final"
    /\ exts = 1
    /\ ret = Some(Raise("TypeError"))
    /\ Len(extlog) = 4
    /\ extlog[2] = Event("finalize", 0, Some(PyExc("TypeError")), Return(PyExc("TypeError")))
    /\ extlog[3] = Event("finalize", 1, Some(PyExc("TypeError")), Return(PyExc("TypeError")))
    /\ extlog[4] = Event("yield", 0, None, Return(PyStr("str(TypeError)")))

-----------------------------------------------------------------------------
(* utils.py: SensitiveDict and its masked view.  obj is the dictionary:    *)
(* _data, a value or None for each key, the set _sensitive, and whether    *)
(* the masked view has been allocated.  trace holds the last read made     *)
(* through the masked view, until the dictionary changes.                  *)

DictKeys == {"KEY", "OTHER"}

DictValues == {"secret", "plain"}

(* line 52: masking = '<masked {key}>', formatted *)
Masking(key) == "<masked " \o key \o ">"

(* a variant that looks at the sensitive set before the data *)
MaskedGetItemMaskFirst(d, key) ==
    IF key \in d.sensitive THEN Return(Masking(key))
    ELSE IF d.data[key] = None THEN Raise("KeyError")
    ELSE Return(Val(d.data[key]))

(* MaskedDict.__getitem__ *)
MaskedGetItem(d, key) ==
    IF d.data[key] = None THEN Raise("KeyError")
    ELSE IF key \in d.sensitive THEN Return(Masking(key))
    ELSE Return(Val(d.data[key]))

InitDict ==
    /\ test = <<>>
    /\ check = FALSE
    /\ verbose = 1
    /\ steps = <<>>
    /\ pc = "dict"
    /\ idx = 0
    /\ printed = <<>>
    /\ ret = None
    /\ hist = <<>>
    /\ cstep = None
    /\ phase = "NOT_STARTED"
    /\ ci = -1
    /\ cj = -1
    /\ result = None
    /\ exc = None
    /\ trace = <<>>
    /\ exts = 0
    /\ extdebug = 0
    /\ extlog = <<>>
    /\ obj = Some([data |-> [k \in DictKeys |-> None], sensitive |-> {},
                   masked |-> FALSE])

(* d[key] = value *)
SetItem ==
    /\ pc = "dict"
    /\ \E key \in DictKeys, value \in DictValues :
         obj' = Some([Val(obj) EXCEPT !.data[key] = Some(value)])
    /\ trace' = <<>>
    /\ ret' = Some(Return(None))

(* del d[key] *)
DelItem ==
    /\ pc = "dict"
    /\ \E key \in DictKeys :
         IF Val(obj).data[key] = None
         THEN /\ obj' = obj
              /\ ret' = Some(Raise("KeyError"))
         ELSE /\ obj' = Some([Val(obj) EXCEPT !.data[key] = None])
              /\ ret' = Some(Return(None))
    /\ trace' = <<>>

(* d.declare_sensitive(key) *)
DeclareSensitive ==
    /\ pc = "dict"
    /\ \E key \in DictKeys :
         obj' = Some([Val(obj) EXCEPT !.sensitive = @ \cup {key}])
    /\ trace' = <<>>
    /\ ret' = Some(Return(None))

(* d.masked[key] *)
MaskedRead ==
    /\ pc = "dict"
    /\ \E key \in DictKeys :
         /\ trace' = <<Event("masked", -1, Some(key), MaskedGetItem(Val(obj), key))>>
         /\ ret' = Some(MaskedGetItem(Val(obj), key))
    /\ obj' = Some([Val(obj) EXCEPT !.masked = TRUE])

NextDict ==
    \/ (SetItem /\ UNCHANGED <<test, check, verbose, steps, pc, idx, printed, hist,
                               cstep, phase, ci, cj, result, exc, extvars>>)
    \/ (DelItem /\ UNCHANGED <<test, check, verbose, steps, pc, idx, printed, hist,
                               cstep, phase, ci, cj, result, exc, extvars>>)
    \/ (DeclareSensitive /\ UNCHANGED <<test, check, verbose, steps, pc, idx, printed,
                               hist, cstep, phase, ci, cj, result, exc, extvars>>)
    \/ (MaskedRead /\ UNCHANGED <<test, check, verbose, steps, pc, idx, printed, hist,
                               cstep, phase, ci, cj, result, exc, extvars>>)

SpecDict == InitDict /\ [][NextDict]_vars

(* C28: whatever was set, deleted and declared sensitive before, a read    *)
(* through the masked view gives the mask '<masked KEY>', and not the      *)
(* stored value, for a present key that is declared sensitive, the stored  *)
(* value for a present key that is not, and KeyError for an absent key,    *)
(* declared sensitive or not.                                              *)
C28_MaskedRead ==
    (pc = "dict" /\ trace # <<>>) =>
        LET key  == Val(trace[1].arg)
            d    == Val(obj)
            read == trace[1].out
        IN  /\ (d.data[key] # None /\ key \in d.sensitive) =>
                   /\ read = Return("<masked " \o key \o ">")
                   /\ read.value # Val(d.data[key])
            /\ (d.data[key] # None /\ key \notin d.sensitive) =>
                   read = Return(Val(d.data[key]))
            /\ d.data[key] = None => read = Raise("KeyError")

C28_Witness ==
    /\ pc = "dict"
    /\ trace # <<>>
    /\ Val(obj).sensitive = {"KEY"}
    /\ Val(obj).data["KEY"] = Some("secret")
    /\ Val(obj).data["OTHER"] = None
    /\ trace[1] = Event("masked", -1, Some("KEY"), Return("<masked KEY>"))

-----------------------------------------------------------------------------
(* entry.py: NamespaceCache.  obj is the cache: _entrypoints maps each     *)
(* defined name to its entrypoints in the order pkg_resources gave them,   *)
(* an entrypoint being what its load() does: Return(object), or Raise of   *)
(* ImportError, AttributeError or UnknownExtra;                            *)
(* _epcache maps a name to the object cached for it; _eplist is None or    *)
(* the list of objects iterated so far.  iters are the generators made by  *)
(* __iter__: a generator's body starts at its first next().                *)

MaxIters == 2

MaxLookups == 3

(* the entrypoint names, in the order sorted() puts them *)
EpNames == <<"ep1", "ep2", "ep3">>

Unavailable == "_unavailable"

Namespaces ==
    { [name \in {} |-> <<>>],
      [name \in {"ep2"} |-> <<Return("obj0")>>],
      [name \in {"ep1", "ep2", "ep3"} |->
          CASE name = "ep1" -> <<Raise("ImportError")>>
            [] name = "ep2" -> <<Return("obj0"), Return("obj1")>>
            [] name = "ep3" -> <<Raise("AttributeError"), Return("obj2")>>] }

Loads(ep) == ep.kind = "return"

(* line 73: sorted(self._entrypoints.items(), key=lambda x: x[0]) *)
IsDefined(entrypoints, name) == name \in DOMAIN entrypoints

SortedNames(entrypoints) ==
    SelectSeq(EpNames, LAMBDA name : IsDefined(entrypoints, name))

(* dict.setdefault on _epcache *)
SetDefault(epcache, name, value) ==
    IF epcache[name] = None THEN [epcache EXCEPT ![name] = Some(value)] ELSE epcache

NamespaceCacheInit(entrypoints) ==
    [entrypoints |-> entrypoints,
     epcache |-> [name \in DOMAIN entrypoints |-> None],
     eplist |-> None,
     iters |-> <<>>]

NewGenerator == [mode |-> "new", ni |-> 1, ei |-> 1, pos |-> 0, yielded |-> <<>>]

(* lines 73-93, resumed at entrypoint ei of the ni-th name: runs to the    *)
(* next yield or to the end of the generator                               *)
RECURSIVE Load(_, _, _, _)
LoadYield(c, i, ni, ei, name, ep_obj) ==
    [c EXCEPT !.epcache = SetDefault(@, name, ep_obj),
              !.eplist = Some(Append(Val(@), ep_obj)),
              !.iters[i] = [@ EXCEPT !.mode = "loading", !.ni = ni, !.ei = ei + 1,
                                     !.yielded = Append(@, ep_obj)]]

LoadName(c, i, ni, ei, name, eps) ==
    IF ei > Len(eps)
    THEN Load([c EXCEPT !.epcache = SetDefault(@, name, Unavailable)], i, ni + 1, 1)
    ELSE IF ~Loads(eps[ei])
    THEN Load(c, i, ni, ei + 1)
    ELSE LoadYield(c, i, ni, ei, name, eps[ei].value)

Load(c, i, ni, ei) ==
    IF ni > Len(SortedNames(c.entrypoints))
    THEN [c EXCEPT !.iters[i] = [@ EXCEPT !.mode = "done", !.ni = ni, !.ei = ei]]
    ELSE LoadName(c, i, ni, ei, SortedNames(c.entrypoints)[ni],
                  c.entrypoints[SortedNames(c.entrypoints)[ni]])

(* lines 66-69: the for loop over the list self._eplist names, as it is    *)
(* when the loop asks for its next element                                 *)
Cached(c, i) ==
    IF c.iters[i].pos < Len(Val(c.eplist))
    THEN [c EXCEPT !.iters[i] = [@ EXCEPT !.mode = "cached", !.pos = @ + 1,
                                   !.yielded = Append(@, Val(c.eplist)[c.iters[i].pos + 1])]]
    ELSE [c EXCEPT !.iters[i] = [@ EXCEPT !.mode = "done"]]

(* next() on the i-th generator of NamespaceCache.__iter__ *)
GeneratorNext(c, i) ==
    CASE c.iters[i].mode = "new" ->
             IF c.eplist # None THEN Cached(c, i)
             ELSE Load([c EXCEPT !.eplist = Some(<<>>)], i, 1, 1)
      [] c.iters[i].mode = "cached" -> Cached(c, i)
      [] c.iters[i].mode = "loading" -> Load(c, i, c.iters[i].ni, c.iters[i].ei)
      [] c.iters[i].mode = "done" -> c

(* lines 107-108: name in cache *)
CacheContains(c, name) ==
    /\ IsDefined(c.entrypoints, name)
    /\ c.epcache[name] # Some(Unavailable)

(* lines 128-144: the first entrypoint of the name that loads, by index,   *)
(* or 0 when none does                                                     *)
RECURSIVE FirstLoading(_, _)
FirstLoading(eps, ei) ==
    IF ei > Len(eps) THEN 0
    ELSE IF Loads(eps[ei]) THEN ei
    ELSE FirstLoading(eps, ei + 1)

(* lines 128-141: how many times cache[name] calls load() on an entrypoint *)
LookupLoads(c, name) ==
    IF ~CacheContains(c, name) \/ c.epcache[name] # None THEN 0
    ELSE IF FirstLoading(c.entrypoints[name], 1) = 0 THEN Len(c.entrypoints[name])
    ELSE FirstLoading(c.entrypoints[name], 1)

(* a variant that records nothing in _epcache *)
CacheGetItemUnrecorded(c, name) ==
    IF ~IsDefined(c.entrypoints, name) THEN [cache |-> c, out |-> Raise("KeyError")]
    ELSE IF FirstLoading(c.entrypoints[name], 1) = 0
    THEN [cache |-> c, out |-> Raise(c.entrypoints[name][1].exc)]
    ELSE [cache |-> c,
          out |-> Return(c.entrypoints[name][FirstLoading(c.entrypoints[name], 1)].value)]

(* cache[name]: the cache after it and what it returned or raised *)
CacheGetItem(c, name) ==
    IF ~CacheContains(c, name) THEN [cache |-> c, out |-> Raise("KeyError")]
    ELSE IF c.epcache[name] # None
    THEN [cache |-> c, out |-> Return(Val(c.epcache[name]))]
    ELSE IF FirstLoading(c.entrypoints[name], 1) = 0
    THEN [cache |-> [c EXCEPT !.epcache[name] = Some(Unavailable)],
          out |-> IF c.entrypoints[name] = <<>> THEN Raise("KeyError")
                  ELSE Raise(c.entrypoints[name][1].exc)]
    ELSE [cache |-> [c EXCEPT !.epcache[name] =
                        Some(c.entrypoints[name][FirstLoading(c.entrypoints[name], 1)].value)],
          out |-> Return(c.entrypoints[name][FirstLoading(c.entrypoints[name], 1)].value)]

InitCache ==
    /\ test = <<>>
    /\ check = FALSE
    /\ verbose = 1
    /\ steps = <<>>
    /\ pc = "cache"
    /\ idx = 0
    /\ printed = <<>>
    /\ ret = None
    /\ hist = <<>>
    /\ cstep = None
    /\ phase = "NOT_STARTED"
    /\ ci = -1
    /\ cj = -1
    /\ result = None
    /\ exc = None
    /\ trace = <<>>
    /\ exts = 0
    /\ extdebug = 0
    /\ extlog = <<>>
    /\ \E entrypoints \in Namespaces : obj = Some(NamespaceCacheInit(entrypoints))

(* iter(cache) *)
NewIter ==
    /\ pc = "cache"
    /\ Len(Val(obj).iters) < MaxIters
    /\ obj' = Some([Val(obj) EXCEPT !.iters = Append(@, NewGenerator)])

(* next(it) on a generator that has not ended *)
NextIter ==
    /\ pc = "cache"
    /\ \E i \in 1..Len(Val(obj).iters) :
         /\ Val(obj).iters[i].mode # "done"
         /\ obj' = Some(GeneratorNext(Val(obj), i))

(* cache[name]; extlog takes the lookups in order: the name, what the      *)
(* lookup returned or raised, and how many entrypoints it loaded           *)
Lookup ==
    /\ pc = "cache"
    /\ Len(extlog) < MaxLookups
    /\ \E name \in {EpNames[n] : n \in DOMAIN EpNames} :
         /\ obj' = Some(CacheGetItem(Val(obj), name).cache)
         /\ ret' = Some(CacheGetItem(Val(obj), name).out)
         /\ extlog' = Append(extlog, [name |-> name,
                                      out |-> CacheGetItem(Val(obj), name).out,
                                      loads |-> LookupLoads(Val(obj), name)])

NextCache ==
    \/ (NewIter /\ UNCHANGED <<test, check, verbose, steps, pc, idx, printed, ret, hist,
                               cstep, phase, ci, cj, result, exc, trace, extvars>>)
    \/ (Lookup /\ UNCHANGED <<test, check, verbose, steps, pc, idx, printed, hist,
                              cstep, phase, ci, cj, result, exc, trace, exts, extdebug>>)
    \/ (NextIter /\ UNCHANGED <<test, check, verbose, steps, pc, idx, printed, ret, hist,
                               cstep, phase, ci, cj, result, exc, trace, extvars>>)

SpecCache == InitCache /\ [][NextCache]_vars

(* the loadable objects of the namespace, by name and then in the order    *)
(* of the name's entrypoints                                               *)
RECURSIVE Loadable(_, _, _)
Loadable(entrypoints, ni, ei) ==
    IF ni > Len(SortedNames(entrypoints)) THEN <<>>
    ELSE IF ei > Len(entrypoints[SortedNames(entrypoints)[ni]])
    THEN Loadable(entrypoints, ni + 1, 1)
    ELSE IF ~Loads(entrypoints[SortedNames(entrypoints)[ni]][ei])
    THEN Loadable(entrypoints, ni, ei + 1)
    ELSE <<entrypoints[SortedNames(entrypoints)[ni]][ei].value>>
             \o Loadable(entrypoints, ni, ei + 1)

(* C29: every iteration over a NamespaceCache that has ended has yielded   *)
(* all the defined and loadable entrypoint objects of the namespace, in    *)
(* the order of their names, whether it was the first iteration, a later   *)
(* one, or one started after or interleaved with an unfinished one.        *)
C29_EveryIterationComplete ==
    pc = "cache" =>
        \A i \in 1..Len(Val(obj).iters) :
            Val(obj).iters[i].mode = "done" =>
                Val(obj).iters[i].yielded = Loadable(Val(obj).entrypoints, 1, 1)

-----------------------------------------------------------------------------
(* steps.py: SensitiveDictAction.__call__ on the SensitiveDict it selects. *)
(* A variable file is what open() and yaml.load() give for it: a mapping,  *)
(* a value that is not a mapping, or an exception.  The values under set   *)
(* are plain text, which the templates render as it is.                    *)

MaxFiles == 2

VarKeys == {"a", "b"}

(* the orders in which a dict may give its keys *)
KeyOrders == {<<"a", "b">>, <<"b", "a">>}

(* a value of a YAML mapping: a string, a scalar that is no string, null,  *)
(* or, under set, a string that is a template whose rendering raises       *)
VarVal(t, v) == [t |-> t, v |-> v]

VarStr(text) == VarVal("str", text)

VarInt == VarVal("int", "8080")

VarNull == VarVal("null", "")

VarBad == VarVal("bad", "{{ nope.attr }}")

(* a variable file is what rendering its name, open() and yaml.load() give *)
VarFile(kind, data) == [kind |-> kind, data |-> data]

NoData == [k \in VarKeys |-> None]

VarFiles ==
    {VarFile("template_error", NoData), VarFile("error", NoData), VarFile("list", NoData),
     VarFile("mapping", [k \in VarKeys |-> Some(VarStr("file1"))]),
     VarFile("mapping", [k \in VarKeys |-> IF k = "a" THEN Some(VarStr("file2")) ELSE None]),
     VarFile("mapping", [k \in VarKeys |-> IF k = "a" THEN Some(VarInt) ELSE Some(VarNull)])}

VarConfs ==
    [files : UNION {[1..n -> VarFiles] : n \in 0..MaxFiles},
     sensitive : {{}, {"a"}},
     unset : SUBSET VarKeys,
     set : {f \in [VarKeys -> {None, Some(VarStr("new")), Some(VarInt), Some(VarNull),
                               Some(VarBad)}] :
               f["b"] \in {None, Some(VarStr("new"))}}]

Applied(d) == [dict |-> d, out |-> Return(None)]

(* sensitive_dict[k] = value: SensitiveDict.__setitem__ (utils.py 99-107)   *)
(* stores any value; Environment.__setitem__ (environment.py 310-349), for *)
(* a name that is not special, removes the name for None, stores a string  *)
(* and raises ValueError for anything else                                 *)
SetVar(d, k, value) ==
    IF d.attr = "variables" THEN Applied([d EXCEPT !.data[k] = Some(value)])
    ELSE IF value.t = "null" THEN Applied([d EXCEPT !.data[k] = None])
    ELSE IF value.t = "str" THEN Applied([d EXCEPT !.data[k] = Some(value)])
    ELSE [dict |-> d, out |-> Raise("ValueError")]

(* line 794: sensitive_dict.update(var_data), the keys taken in the order  *)
(* the mapping gives them; an exception leaves the keys before it set      *)
RECURSIVE DictUpdate(_, _, _)
DictUpdate(d, var_data, order) ==
    IF order = <<>> THEN Applied(d)
    ELSE IF var_data[Head(order)] = None THEN DictUpdate(d, var_data, Tail(order))
    ELSE IF SetVar(d, Head(order), Val(var_data[Head(order)])).out.kind = "raise"
    THEN SetVar(d, Head(order), Val(var_data[Head(order)]))
    ELSE DictUpdate(SetVar(d, Head(order), Val(var_data[Head(order)])).dict,
                    var_data, Tail(order))

(* lines 781-794: one variable file; the name is rendered outside the try  *)
(* statement, which covers open() and yaml.load() alone                    *)
ReadVarFile(d, file, order) ==
    IF file.kind = "template_error" THEN [dict |-> d, out |-> Raise("UndefinedError")]
    ELSE IF file.kind = "mapping" THEN DictUpdate(d, file.data, order)
    ELSE Applied(d)

(* lines 780-794: the files, in order *)
RECURSIVE ReadVarFiles(_, _, _)
ReadVarFiles(d, files, order) ==
    IF files = <<>> THEN Applied(d)
    ELSE IF ReadVarFile(d, Head(files), order).out.kind = "raise"
    THEN ReadVarFile(d, Head(files), order)
    ELSE ReadVarFiles(ReadVarFile(d, Head(files), order).dict, Tail(files), order)

(* lines 797-798: declare_sensitive of each name under sensitive *)
DeclareAll(d, sensitive_vars) == [d EXCEPT !.sensitive = @ \cup sensitive_vars]

(* lines 799-800: pop(var, None) of each name under unset *)
UnsetAll(d, unset_vars) ==
    [d EXCEPT !.data = [k \in VarKeys |-> IF k \in unset_vars THEN None ELSE @[k]]]

(* lines 803-804: sensitive_dict[var] = tmpl(ctxt) for the items of        *)
(* set_vars in the order the dict gives them; what is not a string renders *)
(* to itself (context.py 103-104)                                          *)
RECURSIVE SetAll(_, _, _)
SetAll(d, set_vars, order) ==
    IF order = <<>> THEN Applied(d)
    ELSE IF set_vars[Head(order)] = None THEN SetAll(d, set_vars, Tail(order))
    ELSE IF Val(set_vars[Head(order)]).t = "bad"
    THEN [dict |-> d, out |-> Raise("UndefinedError")]
    ELSE IF SetVar(d, Head(order), Val(set_vars[Head(order)])).out.kind = "raise"
    THEN SetVar(d, Head(order), Val(set_vars[Head(order)]))
    ELSE SetAll(SetVar(d, Head(order), Val(set_vars[Head(order)])).dict,
                set_vars, Tail(order))

(* a variant that applies the sets before the unsets *)
ApplyChangesSetFirst(d, conf, order) ==
    IF SetAll(d, conf.set, order).out.kind = "raise" THEN SetAll(d, conf.set, order)
    ELSE Applied(UnsetAll(DeclareAll(SetAll(d, conf.set, order).dict, conf.sensitive),
                          conf.unset))

(* lines 796-804: after the files *)
ApplyChanges(d, conf, order) ==
    SetAll(UnsetAll(DeclareAll(d, conf.sensitive), conf.unset), conf.set, order)

(* lines 766-807 after the files were read *)
AfterFiles(read, conf, order) ==
    IF read.out.kind = "raise" THEN read
    ELSE IF ApplyChanges(read.dict, conf, order).out.kind = "raise"
    THEN ApplyChanges(read.dict, conf, order)
    ELSE [dict |-> ApplyChanges(read.dict, conf, order).dict,
          out  |-> Return(Some(StepResult(Some(SUCCESS), None, None, None, None, None)))]

(* SensitiveDictAction.__call__: the dictionary after it and the result it *)
(* returns or the exception that leaves it                                 *)
SensitiveDictCall(d, conf, order) ==
    AfterFiles(ReadVarFiles(d, conf.files, order), conf, order)

InitVars ==
    /\ test = <<>>
    /\ check = FALSE
    /\ verbose = 1
    /\ steps = <<>>
    /\ pc = "vars"
    /\ idx = 0
    /\ printed = <<>>
    /\ ret = None
    /\ hist = <<>>
    /\ cstep = None
    /\ phase = "NOT_STARTED"
    /\ ci = -1
    /\ cj = -1
    /\ result = None
    /\ exc = None
    /\ trace = <<>>
    /\ exts = 0
    /\ extdebug = 0
    /\ extlog = <<>>
    /\ \E attr \in {"variables", "environment"},
          data \in {[k \in VarKeys |-> Some(VarStr("old"))],
                    [k \in VarKeys |-> IF k = "b" THEN Some(VarStr("old")) ELSE None]},
          sensitive \in {{}, {"b"}} :
         obj = Some([attr |-> attr, data |-> data, sensitive |-> sensitive])

(* action(ctxt) of a var action (context_attr variables) or an env action  *)
(* (context_attr environment): trace records the configuration, the order  *)
(* of the keys and the dictionary before                                   *)
VarCall ==
    /\ pc = "vars"
    /\ \E conf \in VarConfs, order \in KeyOrders :
         /\ obj' = Some(SensitiveDictCall(Val(obj), conf, order).dict)
         /\ ret' = Some(SensitiveDictCall(Val(obj), conf, order).out)
         /\ trace' = <<Event("__call__", -1,
                             Some([conf |-> conf, order |-> order, before |-> Val(obj)]),
                             SensitiveDictCall(Val(obj), conf, order).out)>>
    /\ pc' = "vars_done"
    /\ UNCHANGED <<test, check, verbose, steps, idx, printed, hist,
                   cstep, phase, ci, cj, result, exc, extvars>>

NextVars == VarCall

SpecVars == InitVars /\ [][NextVars]_vars

VarConf == Val(trace[1].arg).conf

VarBefore == Val(trace[1].arg).before

(* what the dictionary holds for a name after value was assigned to it *)
Stored(value) ==
    IF VarBefore.attr = "environment" /\ value.t = "null" THEN None ELSE Some(value)

(* the value the files leave for a key: that of the last file, readable    *)
(* and a mapping, that holds the key, else the value before                *)
RECURSIVE FromFiles(_, _, _)
FromFiles(files, key, before) ==
    IF files = <<>> THEN before
    ELSE IF files[Len(files)].kind = "mapping" /\ files[Len(files)].data[key] # None
    THEN Stored(Val(files[Len(files)].data[key]))
    ELSE FromFiles(SubSeq(files, 1, Len(files) - 1), key, before)

(* the dictionary after a call that went through *)
AllApplied ==
    /\ \A k \in VarKeys :
           Val(obj).data[k] =
               IF VarConf.set[k] # None THEN Stored(Val(VarConf.set[k]))
               ELSE IF k \in VarConf.unset THEN None
               ELSE FromFiles(VarConf.files, k, VarBefore.data[k])
    /\ Val(obj).sensitive = VarBefore.sensitive \cup VarConf.sensitive

(* a value the dictionary refuses: for the environment, one that is        *)
(* neither a string nor None                                               *)
Refused(entry) ==
    /\ entry # None
    /\ VarBefore.attr = "environment"
    /\ Val(entry).t \notin {"str", "null"}

(* a file whose name does not render, or a mapping with a refused value *)
FilesRaise ==
    \E n \in 1..Len(VarConf.files) :
        \/ VarConf.files[n].kind = "template_error"
        \/ /\ VarConf.files[n].kind = "mapping"
           /\ \E k \in VarKeys : Refused(VarConf.files[n].data[k])

(* a set value that does not render or is refused *)
SetsRaise ==
    \E k \in VarKeys :
        \/ VarConf.set[k] = Some(VarBad)
        \/ Refused(VarConf.set[k])

-----------------------------------------------------------------------------
(* main.py: timid() with the extension set's pre_step and post_step called *)
(* through ExtensionSet.  extlog takes what the driver does, in order: the *)
(* call of pre_step for step idx with what it gave, the invocation of the  *)
(* step, the result the step returned, the call of post_step with the      *)
(* result as the extensions left it, and the test of the result.           *)

HookConfs ==
    {<<Item("run", YStr("exit 1"))>>,
     <<Item("run", YStr("exit 1")), Item("when", YStr("False"))>>,
     <<Item("run", YStr("exit 1")), Item("late", YNull)>>,
     <<Item("run", YStr("exit 1")), Item("ignore-errors", YBool(FALSE))>>}

HookFiles == UNION {[1..n -> HookConfs] : n \in 0..MaxSteps}

HookPreSteps == {Return(FALSE), Return(TRUE), Raise("ExtError")}

HookPostSteps == {Return("nothing"), Return("ignore_true"), Raise("ExtError")}

(* a variant whose loop stays at the step it is at *)
NextIndexSame(k) == k

(* lines 200 and 209: enumerate() goes to the next index *)
NextIndex(k) == k + 1

(* a variant that tests the result as the step returned it *)
TestedResultBefore(before, after) == before

(* lines 215-223: the result object the driver prints and tests is the one *)
(* it handed to post_step, as the extensions left it                       *)
TestedResult(before, after) == after

(* lines 207-212 after pre_step gave out: the exception leaves timid(),    *)
(* the step is skipped, or it is invoked                                   *)
AfterPreStep(out, step, progress) ==
    IF out.kind = "raise"
    THEN /\ printed' = progress
         /\ ret' = Some(out)
         /\ pc' = "done"
         /\ hist' = Append(hist, "raised")
         /\ extlog' = Append(extlog, Event("pre_step", 0, Some(idx), out))
         /\ UNCHANGED <<idx, callvars>>
    ELSE IF out.value
    THEN /\ printed' = progress \o <<StateName(SKIPPED)>>
         /\ hist' = Append(hist, "skipped")
         /\ extlog' = Append(extlog, Event("pre_step", 0, Some(idx), out))
         /\ Continue(NextIndex(idx), Len(steps))
         /\ UNCHANGED callvars
    ELSE /\ printed' = progress
         /\ extlog' = extlog \o <<Event("pre_step", 0, Some(idx), out),
                                  Event("invoke", 0, Some(idx), Return(None))>>
         /\ cstep' = Some(step)
         /\ phase' = "NOT_STARTED"
         /\ ci' = -1
         /\ cj' = -1
         /\ result' = None
         /\ exc' = None
         /\ trace' = <<>>
         /\ pc' = "call"
         /\ UNCHANGED <<idx, ret, hist>>

(* lines 200-212 *)
PreStepExt ==
    /\ pc = "loop"
    /\ \E behs \in [1..exts -> HookPreSteps] :
         AfterPreStep(ExtensionSetCall("pre_step", behs, extdebug, steps[idx + 1]).out,
                      steps[idx + 1],
                      IF verbose >= 1 THEN <<ProgressLine(idx, steps[idx + 1])>> ELSE <<>>)
    /\ UNCHANGED <<test, check, verbose, steps, exts, extdebug, obj>>

(* lines 215-228 after post_step gave out: the exception leaves timid()    *)
(* with the result as the extensions called before it left it (left), or   *)
(* the result is printed and tested                                        *)
AfterPostStep(out, before, left) ==
    IF out.kind = "raise"
    THEN /\ ret' = Some(out)
         /\ pc' = "done"
         /\ hist' = Append(hist, "raised")
         /\ result' = Some(left)
         /\ extlog' = extlog \o <<Event("returned", 0, Some(idx), Return(before)),
                                  Event("post_step", 0, Some(idx), out)>>
         /\ UNCHANGED <<idx, printed>>
    ELSE /\ result' = Some(TestedResult(before, out.value))
         /\ printed' = printed \o
                (IF verbose >= 1 THEN <<StatusLine(Val(result'))>> ELSE <<>>)
         /\ extlog' = extlog \o <<Event("returned", 0, Some(idx), Return(before)),
                                  Event("post_step", 0, Some(idx), out),
                                  Event("test", 0, Some(idx),
                                        Return(StepResultBool(Val(result'))))>>
         /\ hist' = Append(hist, Observed(Val(result')))
         /\ IF ~StepResultBool(Val(result'))
            THEN /\ ret' = Some(Return(Some(FailureMsg(Val(result')))))
                 /\ pc' = "done"
                 /\ idx' = idx
            ELSE LoopTo(NextIndex(idx), Len(steps))

(* lines 215-228, the post_step hooks of the extensions doing as behs says *)
PostStepWith(behs) ==
    /\ pc = "call"
    /\ phase = "DONE"
    /\ AfterPostStep(ExtensionSetCall("post_step", behs, extdebug, Val(result)).out,
                     Val(result),
                     ExtensionSetCall("post_step", behs, extdebug, Val(result)).value)
    /\ UNCHANGED <<test, check, verbose, steps, cstep, phase, ci, cj, exc, trace,
                   exts, extdebug>>

(* lines 215-228 *)
PostStepExt ==
    /\ \E behs \in [1..exts -> HookPostSteps] : PostStepWith(behs)
    /\ UNCHANGED obj

InitHooks ==
    /\ test = <<>>
    /\ check = FALSE
    /\ verbose \in {0, 1}
    /\ steps = <<>>
    /\ pc = "start"
    /\ idx = 0
    /\ printed = <<>>
    /\ ret = None
    /\ hist = <<>>
    /\ cstep = None
    /\ phase = "NOT_STARTED"
    /\ ci = -1
    /\ cj = -1
    /\ result = None
    /\ exc = None
    /\ trace = <<>>
    /\ exts \in 0..MaxExts
    /\ extdebug \in {0, 1}
    /\ extlog = <<>>
    /\ obj = None

NextHooks ==
    \/ ReadStepsFrom(HookFiles, {Return("nothing")})
    \/ PreStepExt
    \/ (pc = "call" /\ Begin /\ UNCHANGED drivervars)
    \/ (pc = "call" /\ PreCall /\ UNCHANGED drivervars)
    \/ (pc = "call" /\ Act /\ UNCHANGED drivervars)
    \/ (pc = "call" /\ PostCall /\ UNCHANGED drivervars)
    \/ PostStepExt
    \/ Propagate

SpecHooks == InitHooks /\ [][NextHooks]_vars

(* Reading the log of the driver *)

InHooks == pc \in {"loop", "call", "done"}

(* the events of the driver named op for step k, by position in the log;  *)
(* the hooks of read_steps, logged before them, have a positive number     *)
IsLog(e, op, k) ==
    /\ e \in 1..Len(extlog)
    /\ extlog[e].mod = 0
    /\ extlog[e].op = op
    /\ extlog[e].arg = Some(k)

LogAt(op, k) == {e \in 1..Len(extlog) : IsLog(e, op, k)}

(* the driver went on from step k after event e *)
WentOnFrom(e, k) ==
    IF e < Len(extlog) THEN IsLog(e + 1, "pre_step", k + 1)
    ELSE \/ (pc = "loop" /\ idx = k + 1)
         \/ (pc = "done" /\ k + 1 = Len(steps) /\ ret = Some(Return(None)))

(* the driver stopped at step k with event e *)
StoppedAt(e, k, r) ==
    /\ e = Len(extlog)
    /\ pc = "done"
    /\ idx = k
    /\ ret = Some(Return(Some(FailureMsg(r))))

(* C34: for every step the driver invokes, post_step is called exactly     *)
(* once, next after the step has returned and with the result it returned; *)
(* the test that decides whether to stop comes next and is made on the     *)
(* result as the extensions left it, as is the status line; a FAILURE or   *)
(* ERROR result whose ignore was unset and which an extension set to       *)
(* ignore = true makes the driver go on.                                   *)
C34_PostStepOnce ==
    InHooks =>
        \A k \in 0..(Len(steps) - 1) :
            /\ Cardinality(LogAt("post_step", k)) <= 1
            /\ \A i \in LogAt("invoke", k) :
                   i < Len(extlog) =>
                       /\ IsLog(i + 1, "returned", k)
                       /\ IsLog(i + 2, "post_step", k)
            /\ \A p \in LogAt("post_step", k) :
                   /\ IsLog(p - 1, "returned", k)
                   /\ IsLog(p - 2, "invoke", k)
                   /\ extlog[p].out.kind = "return" =>
                          /\ [extlog[p].out.value EXCEPT !._ignore =
                                 extlog[p - 1].out.value._ignore] = extlog[p - 1].out.value
                          /\ IsLog(p + 1, "test", k)
                          /\ extlog[p + 1].out = Return(StepResultBool(extlog[p].out.value))
                          /\ IF extlog[p + 1].out.value
                             THEN WentOnFrom(p + 1, k)
                             ELSE StoppedAt(p + 1, k, extlog[p].out.value)
                          /\ (p + 1 = Len(extlog) /\ verbose >= 1) =>
                                 printed[Len(printed)] =
                                     StateName(Val(extlog[p].out.value.state))
                                         \o (IF extlog[p].out.value._ignore = Some(TRUE)
                                             THEN " (ignored)" ELSE "")
                          /\ (/\ extlog[p - 1].out.value.state \in {Some(FAILURE), Some(ERROR)}
                              /\ extlog[p - 1].out.value._ignore = None
                              /\ extlog[p].out.value._ignore = Some(TRUE)) =>
                                 WentOnFrom(p + 1, k)
            /\ \A t \in LogAt("test", k) : IsLog(t - 1, "post_step", k)

C34_Witness ==
    /\ pc = "loop"
    /\ idx = 1
    /\ verbose = 1
    /\ exts = 2
    /\ \E p \in LogAt("post_step", 0) :
         /\ p + 1 = Len(extlog)
         /\ extlog[p - 1].out.value.state = Some(FAILURE)
         /\ extlog[p - 1].out.value._ignore = None
         /\ extlog[p].out.kind = "return"
         /\ extlog[p].out.value._ignore = Some(TRUE)
         /\ extlog[p + 1].out = Return(TRUE)
    /\ printed[Len(printed)] = "FAILURE (ignored)"

(* the events of the driver, by position in the log *)
DriverLog == {e \in 1..Len(extlog) : extlog[e].mod = 0}

(* step k has been completely processed at event e: the extensions skipped *)
(* it, or it was invoked, passed to post_step and its result found truthy  *)
Processed(e, k) ==
    \/ (IsLog(e, "pre_step", k) /\ extlog[e].out = Return(TRUE))
    \/ /\ IsLog(e, "test", k)
       /\ extlog[e].out = Return(TRUE)
       /\ IsLog(e - 1, "post_step", k)
       /\ IsLog(e - 3, "invoke", k)

(* C36: the driver takes the steps in increasing index order, one at a     *)
(* time: no step is consulted about or invoked twice, a step is invoked    *)
(* only next after its own pre_step declined to skip it, and pre_step for  *)
(* step k is called first of all for k = 0 and otherwise next after step   *)
(* k - 1 has been completely processed.                                    *)
C36_InOrder ==
    InHooks =>
        /\ \A e, f \in DriverLog :
               e < f => Val(extlog[e].arg) <= Val(extlog[f].arg)
        /\ \A k \in 0..(Len(steps) - 1) :
               /\ Cardinality(LogAt("pre_step", k)) <= 1
               /\ Cardinality(LogAt("invoke", k)) <= 1
               /\ \A i \in LogAt("invoke", k) :
                      /\ IsLog(i - 1, "pre_step", k)
                      /\ extlog[i - 1].out = Return(FALSE)
               /\ \A e \in LogAt("pre_step", k) :
                      IF k = 0
                      THEN \A f \in DriverLog : e <= f
                      ELSE Processed(e - 1, k - 1)
               /\ (pc = "loop" /\ k < idx) => LogAt("pre_step", k) # {}
               /\ (pc = "loop" /\ k >= idx) => LogAt("pre_step", k) = {}

C36_Witness ==
    /\ pc = "call"
    /\ phase = "DONE"
    /\ idx = 1
    /\ exts = 1
    /\ Len(steps) = 2
    /\ \E i \in LogAt("invoke", 0) : IsLog(i + 3, "test", 0)
    /\ \E i \in LogAt("invoke", 1) : i = Len(extlog)

(* C37: what a NamespaceCache has recorded for a name never changes.  Once *)
(* a lookup of the name has returned an object, every later lookup returns *)
(* that object and loads no entrypoint, and the name stays a member; once  *)
(* a lookup has found every entrypoint of a defined name failing, every    *)
(* later lookup raises KeyError and loads nothing, and the name is not a   *)
(* member; iterations started, advanced or ended in between change none of *)
(* it.                                                                     *)
C37_RecordedForGood ==
    pc = "cache" =>
        \A e \in 1..Len(extlog) :
            /\ extlog[e].out.kind = "return" =>
                   /\ Val(obj).epcache[extlog[e].name] = Some(extlog[e].out.value)
                   /\ CacheContains(Val(obj), extlog[e].name)
            /\ (extlog[e].out.kind = "raise"
                    /\ IsDefined(Val(obj).entrypoints, extlog[e].name)) =>
                   /\ Val(obj).epcache[extlog[e].name] = Some(Unavailable)
                   /\ ~CacheContains(Val(obj), extlog[e].name)
            /\ \A f \in (e + 1)..Len(extlog) :
                   extlog[f].name = extlog[e].name =>
                       /\ extlog[f].loads = 0
                       /\ extlog[f].out = IF extlog[e].out.kind = "return"
                                          THEN extlog[e].out
                                          ELSE Raise("KeyError")

C37_Witness ==
    /\ pc = "cache"
    /\ Len(extlog) = 3
    /\ extlog[1] = [name |-> "ep3", out |-> Return("obj2"), loads |-> 2]
    /\ extlog[2] = [name |-> "ep1", out |-> Raise("ImportError"), loads |-> 1]
    /\ extlog[3] = [name |-> "ep1", out |-> Raise("KeyError"), loads |-> 0]
    /\ Len(Val(obj).iters) = 2
    /\ Val(obj).iters[1].mode = "done"

(* C38: a StepResult built from a list of children alone, with neither a   *)
(* state nor an ignore given, tests true whenever a child has ignore true, *)
(* also when another child is FAILURE or ERROR and not ignored; it tests   *)
(* false exactly when no child has ignore true and some child is FAILURE   *)
(* or ERROR.                                                               *)
C38_ChildIgnoreWins ==
    (/\ pc = "tested"
     /\ Constructed
     /\ InitArgs.results # None
     /\ InitArgs.state = None
     /\ InitArgs.ignore = None
     /\ InitArgs.returncode = None
     /\ InitArgs.exc_info = None) =>
        LET kids == Val(InitArgs.results)
        IN  /\ (\E k \in 1..Len(kids) : kids[k]._ignore = Some(TRUE)) => hist[1] = "true"
            /\ hist[1] = "false" <=>
                   /\ \A k \in 1..Len(kids) : kids[k]._ignore # Some(TRUE)
                   /\ \E k \in 1..Len(kids) : Val(kids[k].state) \in {FAILURE, ERROR}

C38_Witness ==
    /\ pc = "tested"
    /\ Constructed
    /\ InitArgs.state = None
    /\ InitArgs.ignore = None
    /\ InitArgs.returncode = None
    /\ InitArgs.exc_info = None
    /\ InitArgs.results # None
    /\ Len(Val(InitArgs.results)) = 2
    /\ Val(InitArgs.results)[1].state = Some(ERROR)
    /\ Val(InitArgs.results)[1]._ignore = None
    /\ Val(InitArgs.results)[2].state = Some(FAILURE)
    /\ Val(InitArgs.results)[2]._ignore = Some(TRUE)
    /\ Val(result).state = Some(ERROR)
    /\ hist = <<"true">>

(* C40: the state of a StepResult follows a fixed precedence: a state      *)
(* given is kept; without one, exception info makes it ERROR, also with a  *)
(* return code of 0 or with children; without either, a return code makes  *)
(* it SUCCESS for 0 and FAILURE otherwise, also with children; only        *)
(* without all three is it the greatest state of the children.             *)
C40_StatePrecedence ==
    Constructed =>
        /\ InitArgs.state # None => AtInit.state = InitArgs.state
        /\ (InitArgs.state = None /\ InitArgs.exc_info # None) =>
               AtInit.state = Some(ERROR)
        /\ (InitArgs.state = None /\ InitArgs.exc_info = None
                /\ InitArgs.returncode # None) =>
               AtInit.state = Some(IF InitArgs.returncode = Some(0)
                                   THEN SUCCESS ELSE FAILURE)
        /\ (InitArgs.state = None /\ InitArgs.exc_info = None
                /\ InitArgs.returncode = None /\ InitArgs.results # None) =>
               /\ \E k \in 1..Len(Val(InitArgs.results)) :
                      AtInit.state = Val(InitArgs.results)[k].state
               /\ \A k \in 1..Len(Val(InitArgs.results)) :
                      Val(Val(InitArgs.results)[k].state) <= Val(AtInit.state)

C40_Witness ==
    /\ Constructed
    /\ pc = "result"
    /\ InitArgs.state = None
    /\ InitArgs.exc_info = None
    /\ InitArgs.returncode = Some(0)
    /\ InitArgs.results # None
    /\ Len(Val(InitArgs.results)) = 2
    /\ Val(InitArgs.results)[2].state = Some(ERROR)
    /\ AtInit.state = Some(SUCCESS)

-----------------------------------------------------------------------------
(* environment.py: an Environment with one declared list variable.  A      *)
(* string is the sequence of its characters; a value assigned is None, a   *)
(* string or a sequence of strings.  The environment is its _data entry    *)
(* for the variable's name, None when the name is absent, and the _value   *)
(* of the ListVariable declared for the name.                              *)

MaxChars == 3

MaxElems == 2

Sep == ":"

Chars == {"a", Sep}

EnvStrings == UNION {[1..n -> Chars] : n \in 0..MaxChars}

Elems == {s \in EnvStrings : Len(s) <= 1}

EnvLists == UNION {[1..n -> Elems] : n \in 0..MaxElems}

EnvVal(kind, v) == [kind |-> kind, v |-> v]

(* the position of the first separator of s from k on, or 0 *)
RECURSIVE FirstSep(_, _)
FirstSep(s, k) ==
    IF k > Len(s) THEN 0
    ELSE IF s[k] = Sep THEN k
    ELSE FirstSep(s, k + 1)

(* line 106: value.split(self._sep) *)
RECURSIVE Split(_)
Split(s) ==
    IF FirstSep(s, 1) = 0 THEN <<s>>
    ELSE <<SubSeq(s, 1, FirstSep(s, 1) - 1)>>
             \o Split(SubSeq(s, FirstSep(s, 1) + 1, Len(s)))

(* line 91: self._sep.join(self._value) *)
RECURSIVE Join(_)
Join(l) ==
    IF l = <<>> THEN <<>>
    ELSE IF Len(l) = 1 THEN l[1]
    ELSE l[1] \o <<Sep>> \o Join(Tail(l))

(* lines 93-112: _update(value) gives the new _value *)
Update(value) ==
    IF value.kind = "none" \/ value.v = <<>> THEN <<>>
    ELSE IF value.kind = "str" THEN Split(value.v)
    ELSE value.v

(* lines 84-91: _rebuild() *)
Rebuild(e) == [e EXCEPT !.data = Some(Join(e.value))]

(* lines 75-82: a ListVariable has __len__ and no __bool__, so `if special` *)
(* is true when the list is not empty                                      *)
SpecialBool(e) == Len(e.value) > 0

(* lines 310-349: env[name] = value *)
EnvSetItem(e, value) ==
    IF value.kind = "none"
    THEN [env |-> [data |-> None,
                   value |-> IF SpecialBool(e) THEN Update(value) ELSE e.value],
          out |-> Return(None)]
    ELSE IF value.kind = "str"
    THEN [env |-> [data |-> Some(value.v),
                   value |-> IF SpecialBool(e) THEN Update(value) ELSE e.value],
          out |-> Return(None)]
    ELSE IF SpecialBool(e)
    THEN [env |-> Rebuild([e EXCEPT !.value = Update(value)]), out |-> Return(None)]
    ELSE [env |-> e, out |-> Raise("ValueError")]

(* lines 351-363: del env[name] *)
EnvDelItem(e) ==
    IF e.data = None THEN [env |-> e, out |-> Raise("KeyError")]
    ELSE [env |-> [data |-> None, value |-> Update(EnvVal("none", <<>>))],
          out |-> Return(None)]

(* lines 156-166: special[i] = v *)
ListSetItem(e, i, v) ==
    IF i \notin 0..(Len(e.value) - 1) THEN [env |-> e, out |-> Raise("IndexError")]
    ELSE [env |-> Rebuild([e EXCEPT !.value[i + 1] = v]), out |-> Return(None)]

(* lines 168-177: del special[i] *)
ListDelItem(e, i) ==
    IF i \notin 0..(Len(e.value) - 1) THEN [env |-> e, out |-> Raise("IndexError")]
    ELSE [env |-> Rebuild([e EXCEPT !.value = SubSeq(@, 1, i) \o SubSeq(@, i + 2, Len(@))]),
          out |-> Return(None)]

(* lines 179-188: special.insert(i, v) *)
ListInsert(e, i, v) ==
    [env |-> Rebuild([e EXCEPT !.value = SubSeq(@, 1, i) \o <<v>> \o SubSeq(@, i + 1, Len(@))]),
     out |-> Return(None)]

(* lines 35-55 and 374-397: the list variable is declared on an            *)
(* environment that has the name or not                                    *)
InitEnv ==
    /\ test = <<>>
    /\ check = FALSE
    /\ verbose = 1
    /\ steps = <<>>
    /\ pc = "env"
    /\ idx = 0
    /\ printed = <<>>
    /\ ret = None
    /\ hist = <<>>
    /\ cstep = None
    /\ phase = "NOT_STARTED"
    /\ ci = -1
    /\ cj = -1
    /\ result = None
    /\ exc = None
    /\ trace = <<>>
    /\ exts = 0
    /\ extdebug = 0
    /\ extlog = <<>>
    /\ \/ obj = Some([data |-> None, value |-> Update(EnvVal("none", <<>>))])
       \/ \E s \in EnvStrings :
            obj = Some([data |-> Some(s), value |-> Update(EnvVal("str", s))])

(* env[name] = value, for None, a string or a sequence of strings *)
Assign(value) ==
    /\ pc = "env"
    /\ obj' = Some(EnvSetItem(Val(obj), value).env)
    /\ ret' = Some(EnvSetItem(Val(obj), value).out)

AssignEnv ==
    \/ Assign(EnvVal("none", <<>>))
    \/ \E s \in EnvStrings : Assign(EnvVal("str", s))
    \/ \E l \in EnvLists : Assign(EnvVal("seq", l))

(* del env[name] *)
DeleteEnv ==
    /\ pc = "env"
    /\ obj' = Some(EnvDelItem(Val(obj)).env)
    /\ ret' = Some(EnvDelItem(Val(obj)).out)

(* special[i] = v, del special[i] and special.insert(i, v) on the list     *)
(* variable of the name                                                    *)
MutateSet ==
    /\ pc = "env"
    /\ \E i \in 0..Len(Val(obj).value), v \in Elems :
         /\ obj' = Some(ListSetItem(Val(obj), i, v).env)
         /\ ret' = Some(ListSetItem(Val(obj), i, v).out)

MutateDel ==
    /\ pc = "env"
    /\ \E i \in 0..Len(Val(obj).value) :
         /\ obj' = Some(ListDelItem(Val(obj), i).env)
         /\ ret' = Some(ListDelItem(Val(obj), i).out)

MutateInsert ==
    /\ pc = "env"
    /\ Len(Val(obj).value) < MaxElems
    /\ \E i \in 0..Len(Val(obj).value), v \in Elems :
         /\ obj' = Some(ListInsert(Val(obj), i, v).env)
         /\ ret' = Some(ListInsert(Val(obj), i, v).out)

NextEnv ==
    /\ \/ AssignEnv
       \/ DeleteEnv
       \/ MutateSet
       \/ MutateDel
       \/ MutateInsert
    /\ UNCHANGED <<test, check, verbose, steps, pc, idx, printed, hist,
                   cstep, phase, ci, cj, result, exc, trace, extvars>>

SpecEnv == InitEnv /\ [][NextEnv]_vars

(* C39: after any assignments, deletions and in-place changes the list     *)
(* variable and the environment data agree: when the name is present its   *)
(* string is the separator-join of the list variable's elements, and when  *)
(* it is absent the list variable is empty.                                *)
C39_ListAgrees ==
    pc = "env" =>
        IF Val(obj).data # None
        THEN Val(Val(obj).data) = Join(Val(obj).value)
        ELSE Val(obj).value = <<>>

-----------------------------------------------------------------------------
(* main.py: the loop of timid() over steps the context holds as Step       *)
(* objects, bare Steps as SpecCall invokes them: ctxt.steps is a list that *)
(* may hold elements besides those parsed from the test file (main.py      *)
(* 186-189).  obj takes what the post_step hooks of the extensions did at  *)
(* the last call of post_step.                                             *)

GivenModifiers ==
    {<<Modifier("ConditionalModifier", "when", YStr("True")),
       Modifier("IgnoreErrorsModifier", "ignore-errors", YBool(FALSE))>>,
     <<Modifier("IgnoreErrorsModifier", "ignore-errors", YBool(FALSE)),
       Modifier("LateModifier", "late", YNull)>>}

GivenSteps == {Step(Action("RunAction", "run", YStr("exit 1")), m) : m \in GivenModifiers}

GivenLists == UNION {[1..n -> GivenSteps] : n \in 1..MaxSteps}

(* lines 186-200: the test file holds no step, every extension keeps the   *)
(* default read_steps, and the loop starts on the steps of the context     *)
InitGiven ==
    /\ test = <<>>
    /\ check = FALSE
    /\ verbose \in {0, 1}
    /\ steps \in GivenLists
    /\ pc = "loop"
    /\ idx = 0
    /\ printed = <<>>
    /\ ret = None
    /\ hist = <<>>
    /\ cstep = None
    /\ phase = "NOT_STARTED"
    /\ ci = -1
    /\ cj = -1
    /\ result = None
    /\ exc = None
    /\ trace = <<>>
    /\ exts \in 0..MaxExts
    /\ extdebug \in {0, 1}
    /\ extlog = ExtensionSetCall("read_steps", [i \in 1..exts |-> Return("nothing")],
                                 extdebug, parse_file(test).value).log
    /\ obj = None

(* lines 215-228, with what the hooks did kept *)
PostStepSeen ==
    \E behs \in [1..exts -> HookPostSteps] :
        /\ PostStepWith(behs)
        /\ obj' = Some(behs)

NextGiven ==
    \/ PreStepExt
    \/ (pc = "call" /\ Begin /\ UNCHANGED drivervars)
    \/ (pc = "call" /\ PreCall /\ UNCHANGED drivervars)
    \/ (pc = "call" /\ Act /\ UNCHANGED drivervars)
    \/ (pc = "call" /\ PostCall /\ UNCHANGED drivervars)
    \/ PostStepSeen
    \/ Propagate

SpecGiven == InitGiven /\ [][NextGiven]_vars

(* the step carries the ignore-errors modifier configured false *)
IgnoreErrorsFalse(step) ==
    \E k \in 1..NMods(step) :
        step.modifiers[k] = Modifier("IgnoreErrorsModifier", "ignore-errors", YBool(FALSE))

(* post_step has been called for the step last invoked: its position in    *)
(* the log                                                                 *)
LastPostStep ==
    {p \in 1..Len(extlog) :
        /\ extlog[p].mod = 0
        /\ extlog[p].op = "post_step"
        /\ \A e \in (p + 1)..Len(extlog) : extlog[e].op # "invoke"}

(* an extension's post_step hook assigned ignore = true at that call *)
AssignedTrue ==
    /\ obj # None
    /\ \E x \in 1..Len(Val(obj)) :
           /\ Val(obj)[x] = Return("ignore_true")
           /\ \A y \in 1..(x - 1) : extdebug = 0 \/ Val(obj)[y].kind = "return"

=============================================================================
